---- MODULE Spec2Model ----
(***************************************************************************)
(* A model of the archived-feeds API (src/src/auth.py, utils.py, app.py):  *)
(* the process-wide token cache, the token exchange, the dataset fetch,    *)
(* the CSV formatter and the three request handlers; and the token step    *)
(* taken by two threads at once, statement by statement.                   *)
(*                                                                         *)
(* Python text is modelled by TLA+ strings, read character by character    *)
(* with Len, SubSeq and \o.  Python values that may be None, a string or a *)
(* number are tagged records (None, PyStr, PyNum).  An exception is a      *)
(* record [type, msg]; a function that may raise returns Return(v) or      *)
(* Raise(type, msg).                                                       *)
(***************************************************************************)
EXTENDS Integers, Sequences, FiniteSets, TLC

VARIABLES
    refresh_env,    \* constants.MOBILITY_DB_REFRESH_TOKEN, read once at start
    token_cache,    \* auth._token_cache
    now,            \* the value time.time() returns
    pc,             \* "idle": no operation in progress; "done": one has just ended
    op,             \* the operation that ran last and its argument
    outcome,        \* what it returned or raised
    trace,          \* the calls it made, in order
    pre_cache,      \* token_cache when it started
    started_at,     \* now when it started
    threads         \* where each thread of the process is in get_valid_access_token

vars == <<refresh_env, token_cache, now, pc, op, outcome, trace, pre_cache, started_at,
          threads>>

----------------------------------------------------------------------------
(* Bounds of the model. *)

MaxNow == 3
MaxPostDelay == 1
MaxDatasets == 2
MaxRows == 3
MaxCalls == 2

----------------------------------------------------------------------------
(* Python values. *)

\* body(v) with v evaluated once: a name bound to the value of a call, as a
\* Python assignment binds it.
Bind(v, body(_)) == CHOOSE y \in { body(x) : x \in {v} } : TRUE

None == [type |-> "NoneType"]
PyStr(s) == [type |-> "str", s |-> s]
PyNum(n) == [type |-> "num", n |-> n]

IsNone(v) == v.type = "NoneType"
IsStr(v) == v.type = "str"
IsNum(v) == v.type = "num"

\* bool(v): None, "" and 0 are false.
Truthy(v) ==
    CASE IsNone(v) -> FALSE
      [] IsStr(v) -> Len(v.s) > 0
      [] IsNum(v) -> v.n # 0
      [] OTHER -> TRUE

\* dict.get(key, default)
DictGet(d, key, default) == IF key \in DOMAIN d THEN d[key] ELSE default

EmptyDict == [k \in {} |-> None]

Return(v) == [kind |-> "return", value |-> v]
Raise(type, msg) == [kind |-> "raise", exc |-> [type |-> type, msg |-> msg]]
NoOutcome == [kind |-> "none"]

Raised(o) == o.kind = "raise"
Returned(o) == o.kind = "return"

\* The classes of requests.exceptions: all derive from RequestException.
IsRequestException(type) == type \in {"HTTPError", "ConnectionError", "Timeout"}

----------------------------------------------------------------------------
(* Text. *)

Char(s, i) == SubSeq(s, i, i)

Digits == "0123456789"
DigitValue == [c \in {Char(Digits, i) : i \in 1..10} |->
                  CHOOSE v \in 0..9 : Char(Digits, v + 1) = c]
IsDigit(c) == c \in DOMAIN DigitValue
DigitVal(c) == DigitValue[c]

RECURSIVE NatToStr(_)
NatToStr(n) == IF n < 10 THEN Char(Digits, n + 1)
               ELSE NatToStr(n \div 10) \o Char(Digits, (n % 10) + 1)

\* str(n) for an integer n
IntToStr(n) == IF n < 0 THEN "-" \o NatToStr(-n) ELSE NatToStr(n)

AllDigits(s) == Len(s) > 0 /\ \A i \in 1..Len(s) : IsDigit(Char(s, i))

RECURSIVE DigitsToNat(_)
DigitsToNat(s) == IF Len(s) = 0 THEN 0
                  ELSE 10 * DigitsToNat(SubSeq(s, 1, Len(s) - 1)) + DigitVal(Char(s, Len(s)))

\* sub in s
Contains(s, sub) ==
    \E i \in 1..(Len(s) - Len(sub) + 1) : SubSeq(s, i, i + Len(sub) - 1) = sub

StartsWith(s, prefix) ==
    Len(prefix) <= Len(s) /\ SubSeq(s, 1, Len(prefix)) = prefix

UpperLetters == "ABCDEFGHIJKLMNOPQRSTUVWXYZ"
LowerLetters == "abcdefghijklmnopqrstuvwxyz"

LowerOf == [c \in {Char(UpperLetters, i) : i \in 1..26} |->
               Char(LowerLetters, CHOOSE i \in 1..26 : Char(UpperLetters, i) = c)]

LowerChar(c) == IF c \in DOMAIN LowerOf THEN LowerOf[c] ELSE c

\* str.lower(), character by character (the text is cut in halves to keep
\* the evaluation shallow).
RECURSIVE Lower(_)
Lower(s) == IF Len(s) = 0 THEN ""
            ELSE IF Len(s) = 1 THEN LowerChar(s)
            ELSE Lower(SubSeq(s, 1, Len(s) \div 2))
                 \o Lower(SubSeq(s, Len(s) \div 2 + 1, Len(s)))

\* int(v) for a value of an untyped JSON payload: a number is kept, a string of
\* digits with an optional sign is parsed, anything else raises.
PyInt(v) ==
    CASE IsNum(v) -> Return(v.n)
      [] IsStr(v) ->
            LET signed == Len(v.s) > 0 /\ Char(v.s, 1) \in {"-", "+"}
                body == IF signed THEN SubSeq(v.s, 2, Len(v.s)) ELSE v.s
            IN  IF AllDigits(body)
                THEN Return(IF signed /\ Char(v.s, 1) = "-"
                            THEN -DigitsToNat(body) ELSE DigitsToNat(body))
                ELSE Raise("ValueError",
                           "invalid literal for int() with base 10: '" \o v.s \o "'")
      [] OTHER ->
            Raise("TypeError",
                  "int() argument must be a string, a bytes-like object or a real number, not 'NoneType'")

----------------------------------------------------------------------------
(* The upstream: what an outbound HTTP call meets. *)

\* An HTTP response with a status line and a decoded JSON body.
HttpReply(status, reason, body) ==
    [net |-> "response", status |-> status, reason |-> reason, body |-> body]

\* No response: the requests library raises type(text).
NetFailure(type, text) == [net |-> "failure", type |-> type, text |-> text]

\* response.raise_for_status(): an HTTPError for a 4xx or 5xx status.
RaiseForStatusMsg(reply, url) ==
    IntToStr(reply.status)
        \o (IF reply.status < 500 THEN " Client Error: " ELSE " Server Error: ")
        \o reply.reason \o " for url: " \o url

IsErrorStatus(reply) == reply.status >= 400 /\ reply.status < 600

\* The exception an outbound call to url raises on this reply, as the
\* requests library raises it.
RequestError(reply, url) ==
    IF reply.net = "failure"
    THEN [type |-> reply.type, msg |-> reply.text]
    ELSE [type |-> "HTTPError", msg |-> RaiseForStatusMsg(reply, url)]

RequestFails(reply) == reply.net = "failure" \/ IsErrorStatus(reply)

----------------------------------------------------------------------------
(* auth.py *)

TOKEN_ENDPOINT == "https://api.mobilitydatabase.org/v1/tokens"

PostTimeout == 10
MinRefreshTokenLen == 10
DefaultExpiresIn == 3600
RefreshMargin == 60

EmptyCache == [access_token |-> None, expires_at |-> None]

CallEvent(rt) == [ev |-> "refresh_access_token", refresh_token |-> rt]
\* requests.post(TOKEN_ENDPOINT, json=payload, timeout=10) and what came back.
PostEvent(rt, reply) ==
    [ev |-> "POST", url |-> TOKEN_ENDPOINT, payload |-> [refresh_token |-> rt],
     timeout |-> PostTimeout, reply |-> reply]

\* A refresh whose length test is off by one: a 10-character token is refused.
BadRefreshToken_OffByOne(rt) == ~Truthy(rt) \/ Len(rt.s) <= MinRefreshTokenLen

\* The precondition of a refresh: `not refresh_token or len(refresh_token) < 10`.
BadRefreshToken(rt) == ~Truthy(rt) \/ Len(rt.s) < MinRefreshTokenLen

\* A refresh without the `except RequestException` clause's re-raise: a
\* failure of the POST leaves as the requests exception it was.
WrapRefreshError_Unwrapped(exc) ==
    IF IsRequestException(exc.type)
    THEN Raise(exc.type, exc.msg)
    ELSE Raise("Exception", "Error refreshing token: " \o exc.msg)

\* `except RequestException` / `except Exception`: every exception raised in
\* the try block leaves as a plain Exception that carries its text.
WrapRefreshError(exc) ==
    IF IsRequestException(exc.type)
    THEN Raise("Exception", "Failed to refresh access token: " \o exc.msg)
    ELSE Raise("Exception", "Error refreshing token: " \o exc.msg)

\* An expiry without the early-refresh margin.
ExpiresAt_NoMargin(t, expires_in) == t + expires_in

\* time.time() + expires_in - 60
ExpiresAt(t, expires_in) == t + expires_in - RefreshMargin

\* A store that writes the token and leaves the expiry as it was.
StoreToken_TokenOnly(cache, access_token, t, expires_in) ==
    [cache EXCEPT !.access_token = access_token]

\* The cache after a successful exchange at time t.
StoreToken(cache, access_token, t, expires_in) ==
    [access_token |-> access_token, expires_at |-> PyNum(ExpiresAt(t, expires_in))]

\* refresh_access_token(refresh_token), called at time t; the upstream answers
\* the POST with reply after d time units.  The result holds the outcome, the
\* cache and the clock afterwards, and the calls made.
refresh_access_token(rt, cache, t, reply, d) ==
    IF BadRefreshToken(rt)
    THEN [outcome |-> WrapRefreshError([type |-> "Exception",
                                        msg |-> "Invalid refresh token format"]),
          cache |-> cache, now |-> t, trace |-> <<CallEvent(rt)>>]
    ELSE
    LET called == <<CallEvent(rt), PostEvent(rt, reply)>>
        fail(exc) == [outcome |-> WrapRefreshError(exc), cache |-> cache,
                      now |-> t + d, trace |-> called]
    IN  IF RequestFails(reply)
        THEN fail(RequestError(reply, TOKEN_ENDPOINT))
        ELSE
        LET data == reply.body
            access_token == DictGet(data, "access_token", None)
            expires_in == PyInt(DictGet(data, "expires_in", PyNum(DefaultExpiresIn)))
        IN  IF Raised(expires_in) THEN fail(expires_in.exc)
            ELSE IF ~Truthy(access_token)
            THEN fail([type |-> "Exception", msg |-> "No access token in response"])
            ELSE [outcome |-> Return(access_token),
                  cache |-> StoreToken(cache, access_token, t + d, expires_in.value),
                  now |-> t + d, trace |-> called]

\* A validity check that never accepts the cached token.
CachedTokenValid_Never(cache, t) == Truthy(cache.access_token) /\ t < 0


\* A validity check that still accepts the token at the instant it expires.
CachedTokenValid_NonStrict(cache, t) ==
    /\ Truthy(cache.access_token)
    /\ Truthy(cache.expires_at)
    /\ t <= cache.expires_at.n

\* The validity check of get_valid_access_token at time t.
CachedTokenValid(cache, t) ==
    /\ Truthy(cache.access_token)
    /\ Truthy(cache.expires_at)
    /\ t < cache.expires_at.n

\* A token step that exchanges the refresh token on every call.
get_valid_access_token_AlwaysRefresh(rt, cache, t, reply, d) ==
    refresh_access_token(rt, cache, t, reply, d)

\* A token step that empties the cache of an expired token before the exchange.
get_valid_access_token_ClearsExpired(rt, cache, t, reply, d) ==
    IF CachedTokenValid(cache, t)
    THEN [outcome |-> Return(cache.access_token), cache |-> cache, now |-> t,
          trace |-> <<>>]
    ELSE refresh_access_token(rt, EmptyCache, t, reply, d)


get_valid_access_token(rt, cache, t, reply, d) ==
    IF CachedTokenValid(cache, t)
    THEN [outcome |-> Return(cache.access_token), cache |-> cache, now |-> t,
          trace |-> <<>>]
    ELSE refresh_access_token(rt, cache, t, reply, d)

\* get_mobility_db_auth_header(refresh_token): the header, or what the token
\* step raised.
get_mobility_db_auth_header(rt, cache, t, reply, d) ==
    Bind(get_valid_access_token(rt, cache, t, reply, d), LAMBDA r :
        IF Raised(r.outcome) THEN r
        ELSE [r EXCEPT !.outcome =
                 Return([Authorization |-> "Bearer " \o r.outcome.value.s])])

----------------------------------------------------------------------------
(* The inputs the model draws. *)

\* Refresh tokens: absent, empty, 5, 9, 10 and 19 characters long.
RefreshTokens ==
    {None, PyStr(""), PyStr("short"), PyStr("123456789"), PyStr("0123456789"),
     PyStr("valid-refresh-token")}

\* What the token endpoint may answer.
AuthBodies ==
    { [access_token |-> PyStr("tokA")],
      [access_token |-> PyStr("tokA"), expires_in |-> PyNum(RefreshMargin + 1)],
      [access_token |-> PyStr("tokB"), expires_in |-> PyStr("62")],
      [access_token |-> PyStr("tokB"), expires_in |-> PyNum(RefreshMargin)],
      [access_token |-> PyStr("tokA"), expires_in |-> PyStr("abc")],
      [access_token |-> PyStr("tokA"), expires_in |-> None],
      [expires_in |-> PyNum(DefaultExpiresIn)],
      [access_token |-> PyStr(""), expires_in |-> PyNum(RefreshMargin + 1)],
      [access_token |-> None],
      [expires_in |-> PyStr("abc")] }

AuthReplies ==
    { HttpReply(200, "OK", b) : b \in AuthBodies }
    \cup { HttpReply(401, "Unauthorized", EmptyDict),
           HttpReply(500, "Internal Server Error", EmptyDict),
           NetFailure("ConnectionError", "Connection refused"),
           NetFailure("Timeout", "Read timed out. (read timeout=10)") }

\* The refresh token of the environment: none, too short, well-formed.
RefreshTokenConfigs == {PyStr(""), PyStr("short"), PyStr("valid-refresh-token")}

PostDelays(t) == { d \in 0..MaxPostDelay : t + d <= MaxNow }

\* The threads of the process that may call into auth.py.
Threads == {"t1", "t2"}

\* A thread that is not in a call: no reply awaited, no locals, nothing returned.
IdleThread ==
    [pc |-> "idle", reply |-> NetFailure("ConnectionError", ""),
     access_token |-> None, expires_in |-> 0, posted_at |-> -1, post_order |-> 0,
     expiry |-> None, result |-> NoOutcome]

----------------------------------------------------------------------------
(* Operations. *)

Idle == [name |-> "none", arg |-> None]

InitCommon ==
    /\ now = 0
    /\ pc = "idle"
    /\ op = Idle
    /\ outcome = NoOutcome
    /\ trace = <<>>
    /\ started_at = 0
    /\ threads = [th \in Threads |-> IdleThread]

\* The process starts with the empty cache (auth.py line 9).
Init ==
    /\ InitCommon
    /\ refresh_env \in RefreshTokenConfigs
    /\ token_cache = EmptyCache
    /\ pre_cache = EmptyCache

\* An operation that ran as r, recorded.
Finish(name, arg, r) ==
    \E ran \in {r} :
        /\ pc' = "done"
        /\ op' = [name |-> name, arg |-> arg]
        /\ outcome' = ran.outcome
        /\ trace' = ran.trace
        /\ token_cache' = ran.cache
        /\ now' = ran.now
        /\ pre_cache' = token_cache
        /\ started_at' = now
        /\ UNCHANGED <<refresh_env, threads>>

\* A direct call of auth.refresh_access_token(rt).
RefreshAccessToken ==
    /\ pc = "idle"
    /\ \E rt \in RefreshTokens, reply \in AuthReplies, d \in PostDelays(now) :
          Finish("refresh_access_token", rt,
                 refresh_access_token(rt, token_cache, now, reply, d))

\* A direct call of auth.get_valid_access_token(rt).
GetValidAccessToken ==
    /\ pc = "idle"
    /\ \E rt \in RefreshTokens, reply \in AuthReplies, d \in PostDelays(now) :
          Finish("get_valid_access_token", rt,
                 get_valid_access_token(rt, token_cache, now, reply, d))

\* The caller takes the result; the process is free for the next call.
Done ==
    /\ pc = "done"
    /\ pc' = "idle"
    /\ op' = Idle
    /\ outcome' = NoOutcome
    /\ trace' = <<>>
    /\ pre_cache' = token_cache
    /\ started_at' = now
    /\ UNCHANGED <<refresh_env, token_cache, now, threads>>

\* Time passes between operations.
Tick ==
    /\ pc = "idle"
    /\ now < MaxNow
    /\ now' = now + 1
    /\ started_at' = now + 1
    /\ UNCHANGED <<refresh_env, token_cache, pc, op, outcome, trace, pre_cache, threads>>

NextAuth == RefreshAccessToken \/ GetValidAccessToken \/ Done \/ Tick

\* The auth module alone, from the empty cache.
SpecAuth == Init /\ [][NextAuth]_vars

\* The cache states the tests of get_valid_access_token set up by hand: each
\* field absent or set, the expiry before, at or after the clock.
CacheStates ==
    [access_token : {None, PyStr("cached-token")},
     expires_at : {None} \cup {PyNum(n) : n \in 0..(MaxNow + 1)}]

InitAnyCache ==
    /\ InitCommon
    /\ refresh_env \in RefreshTokenConfigs
    /\ token_cache \in CacheStates
    /\ pre_cache = token_cache

\* The auth module alone, from any cache state.
SpecCache == InitAnyCache /\ [][NextAuth]_vars

----------------------------------------------------------------------------
(* auth.py called from more than one thread: get_valid_access_token step by *)
(* step, the steps of the threads interleaved.                              *)

\* What the token endpoint may answer a thread.
ThreadReplies ==
    { HttpReply(200, "OK", [access_token |-> PyStr("tokA"),
                            expires_in |-> PyNum(RefreshMargin + 1)]),
      HttpReply(200, "OK", [access_token |-> PyStr("tokB"),
                            expires_in |-> PyNum(RefreshMargin + 1)]),
      NetFailure("Timeout", "Read timed out. (read timeout=10)") }

\* The validity check of a thread, as it is recorded: whether another thread
\* was in a call at that time, and the cache the check read.
CheckEvent(th, busy, cache) ==
    [ev |-> "check", thread |-> th, busy |-> busy, cache |-> cache]

\* The two writes of a refresh are done: what the refresh left in the cache.
StoreEvent(th, access_token, expires_at) ==
    [ev |-> "store", thread |-> th, access_token |-> access_token,
     expires_at |-> expires_at]

ThreadAt(th, where) == threads[th].pc = where

\* The number of events ev recorded so far.
Recorded(ev) == Cardinality({i \in 1..Len(trace) : trace[i].ev = ev})

\* Thread th goes on as next, the other threads stay where they are.
ThreadStep(th, next) == threads' = [threads EXCEPT ![th] = next]

\* The call of thread th ends with result.
ThreadEnds(th, result) ==
    ThreadStep(th, [threads[th] EXCEPT !.pc = "idle", !.result = result])

\* The variables no step of a thread changes.
ThreadFrame == UNCHANGED <<refresh_env, pc, op, outcome, pre_cache, started_at>>

\* A thread calls get_valid_access_token(refresh_token) and makes the validity
\* check (auth.py 66-67).
CheckCache ==
    \E th \in Threads :
        /\ ThreadAt(th, "idle")
        /\ Recorded("check") < MaxCalls
        /\ threads' =
              [threads EXCEPT ![th] =
                  [IdleThread EXCEPT !.pc = IF CachedTokenValid(token_cache, now)
                                            THEN "return_cached" ELSE "refresh"]]
        /\ trace' = Append(trace,
                           CheckEvent(th, \E o \in Threads \ {th} : ~ThreadAt(o, "idle"),
                                      token_cache))
        /\ UNCHANGED <<token_cache, now>>
        /\ ThreadFrame

\* `return _token_cache["access_token"]` (auth.py 68)
ReturnCached ==
    \E th \in Threads :
        /\ ThreadAt(th, "return_cached")
        /\ ThreadEnds(th, Return(token_cache.access_token))
        /\ UNCHANGED <<token_cache, now, trace>>
        /\ ThreadFrame

\* The thread enters refresh_access_token: the precondition, and the POST is
\* sent (auth.py 26-31).
CallRefresh ==
    \E th \in Threads :
        /\ ThreadAt(th, "refresh")
        /\ IF BadRefreshToken(refresh_env)
           THEN /\ ThreadEnds(th, WrapRefreshError([type |-> "Exception",
                                                    msg |-> "Invalid refresh token format"]))
                /\ trace' = Append(trace, CallEvent(refresh_env))
           ELSE \E reply \in ThreadReplies :
                    /\ ThreadStep(th, [threads[th] EXCEPT
                                          !.pc = "post", !.reply = reply,
                                          !.posted_at = now,
                                          !.post_order = Recorded("POST") + 1])
                    /\ trace' = trace \o <<CallEvent(refresh_env),
                                            PostEvent(refresh_env, reply)>>
        /\ UNCHANGED <<token_cache, now>>
        /\ ThreadFrame

\* The POST of the thread is answered: the status, the body, the access token
\* and its lifetime (auth.py 32-39).
PostReturns ==
    \E th \in Threads :
        /\ ThreadAt(th, "post")
        /\ LET reply == threads[th].reply
               access_token == DictGet(reply.body, "access_token", None)
               expires_in == PyInt(DictGet(reply.body, "expires_in",
                                           PyNum(DefaultExpiresIn)))
           IN  IF RequestFails(reply)
               THEN ThreadEnds(th, WrapRefreshError(RequestError(reply, TOKEN_ENDPOINT)))
               ELSE IF Raised(expires_in)
               THEN ThreadEnds(th, WrapRefreshError(expires_in.exc))
               ELSE IF ~Truthy(access_token)
               THEN ThreadEnds(th, WrapRefreshError([type |-> "Exception",
                                                     msg |-> "No access token in response"]))
               ELSE ThreadStep(th, [threads[th] EXCEPT
                                       !.pc = "store_token",
                                       !.access_token = access_token,
                                       !.expires_in = expires_in.value])
        /\ UNCHANGED <<token_cache, now, trace>>
        /\ ThreadFrame

\* `_token_cache["access_token"] = access_token` (auth.py 42)
StoreAccessToken ==
    \E th \in Threads :
        /\ ThreadAt(th, "store_token")
        /\ token_cache' = [token_cache EXCEPT !.access_token = threads[th].access_token]
        /\ ThreadStep(th, [threads[th] EXCEPT !.pc = "store_expiry"])
        /\ UNCHANGED <<now, trace>>
        /\ ThreadFrame

\* `_token_cache["expires_at"] = time.time() + expires_in - 60` and the return
\* of the token (auth.py 43-47).
StoreExpiresAt ==
    \E th \in Threads :
        /\ ThreadAt(th, "store_expiry")
        /\ token_cache' =
              [token_cache EXCEPT
                  !.expires_at = PyNum(ExpiresAt(now, threads[th].expires_in))]
        /\ ThreadStep(th, [threads[th] EXCEPT
                              !.pc = "idle",
                              !.expiry = PyNum(ExpiresAt(now, threads[th].expires_in)),
                              !.result = Return(threads[th].access_token)])
        /\ trace' = Append(trace,
                           StoreEvent(th, threads[th].access_token,
                                      PyNum(ExpiresAt(now, threads[th].expires_in))))
        /\ UNCHANGED now
        /\ ThreadFrame

\* Time passes, whatever the threads are doing.
TimePasses ==
    /\ now < MaxNow
    /\ now' = now + 1
    /\ UNCHANGED <<token_cache, trace, threads>>
    /\ ThreadFrame

NextThreads ==
    \/ CheckCache
    \/ ReturnCached
    \/ CallRefresh
    \/ PostReturns
    \/ StoreAccessToken
    \/ StoreExpiresAt
    \/ TimePasses

\* The threads of one process calling get_valid_access_token, from the empty
\* cache, with nothing that keeps their steps apart.
SpecThreads == Init /\ [][NextThreads]_vars


----------------------------------------------------------------------------
(* utils.py: validate_feed_id, fetch_datasets *)

MOBILITY_DB_API == "https://api.mobilitydatabase.org/v1"

GetTimeout == 30

PyList(items) == [type |-> "list", items |-> items]
PyDict(items) == [type |-> "dict", items |-> items]
IsList(v) == v.type = "list"
IsDict(v) == v.type = "dict"

\* A truth test under which a list is true even when it is empty.
TruthyJson_ListsTrue(v) ==
    CASE IsList(v) -> TRUE
      [] IsDict(v) -> DOMAIN v.items # {}
      [] OTHER -> Truthy(v)

\* bool(v) of a decoded JSON value: an empty list or mapping is false too.
TruthyJson(v) ==
    CASE IsList(v) -> Len(v.items) > 0
      [] IsDict(v) -> DOMAIN v.items # {}
      [] OTHER -> Truthy(v)

\* re.match(r"^mdb-\d+$", s): "mdb-", one or more digits, and the end of the
\* text; `$` also matches just before a newline that ends the text.
MatchesFeedIdPattern(s) ==
    LET core == IF Len(s) > 0 /\ Char(s, Len(s)) = "\n"
                THEN SubSeq(s, 1, Len(s) - 1) ELSE s
    IN  /\ StartsWith(core, "mdb-")
        /\ AllDigits(SubSeq(core, 5, Len(core)))

\* A validation without the `if not feed_id` test for the empty text: only None
\* and text that does not match the pattern are refused.
validate_feed_id_EmptyAccepted(feed_id) ==
    IF IsNone(feed_id)
    THEN [is_valid |-> FALSE, error_msg |-> PyStr("Feed ID is required")]
    ELSE IF feed_id.s # "" /\ ~MatchesFeedIdPattern(feed_id.s)
    THEN [is_valid |-> FALSE,
          error_msg |-> PyStr("Invalid feed ID format: " \o feed_id.s
                              \o ". Expected format: mdb-123")]
    ELSE [is_valid |-> TRUE, error_msg |-> None]

\* validate_feed_id(feed_id): <<is_valid, error_msg>>
validate_feed_id(feed_id) ==
    IF ~Truthy(feed_id)
    THEN [is_valid |-> FALSE, error_msg |-> PyStr("Feed ID is required")]
    ELSE IF ~MatchesFeedIdPattern(feed_id.s)
    THEN [is_valid |-> FALSE,
          error_msg |-> PyStr("Invalid feed ID format: " \o feed_id.s
                              \o ". Expected format: mdb-123")]
    ELSE [is_valid |-> TRUE, error_msg |-> None]

Letters == {Char(UpperLetters, i) : i \in 1..26} \cup {Char(LowerLetters, i) : i \in 1..26}

IsLetter(c) == c \in Letters

\* urllib.parse.quote(c, safe=''): letters, digits and "_.-~" are kept, every
\* other character becomes %XX.
QuoteChar(c) ==
    IF IsLetter(c) \/ IsDigit(c) \/ c \in {"_", ".", "-", "~"} THEN c
    ELSE CASE c = "\n" -> "%0A"
           [] c = " " -> "%20"
           [] c = "/" -> "%2F"
           [] c = "?" -> "%3F"
           [] OTHER -> "%25"

RECURSIVE Quote(_)
Quote(s) == IF Len(s) = 0 THEN ""
            ELSE IF Len(s) = 1 THEN QuoteChar(s)
            ELSE Quote(SubSeq(s, 1, Len(s) \div 2))
                 \o Quote(SubSeq(s, Len(s) \div 2 + 1, Len(s)))

DatasetsUrl(feed_id) ==
    MOBILITY_DB_API \o "/gtfs_feeds/" \o Quote(feed_id) \o "/datasets"

BaseHeaders == [Accept |-> "application/json", User_Agent |-> "archived-feeds-api/1.0"]

\* Headers that are sent as they were before the update.
WithAuthorization_Dropped(headers, auth_header) == headers

\* headers.update(auth_header)
WithAuthorization(headers, auth_header) ==
    [k \in DOMAIN headers \cup DOMAIN auth_header |->
        IF k \in DOMAIN auth_header THEN auth_header[k] ELSE headers[k]]

\* requests.get(url, headers=headers, timeout=30) and what came back.
GetEvent(url, headers, reply) ==
    [ev |-> "GET", url |-> url, headers |-> headers, timeout |-> GetTimeout,
     reply |-> reply]

\* A normalization that returns every mapping as it is.
NormalizeBody_MappingAsIs(body) ==
    IF IsDict(body) /\ "results" \in DOMAIN body.items THEN body.items["results"]
    ELSE IF IsList(body) \/ IsDict(body) THEN body
    ELSE PyList(<<>>)

\* The shape fetch_datasets gives the decoded body.
NormalizeBody(body) ==
    IF IsDict(body) /\ "results" \in DOMAIN body.items THEN body.items["results"]
    ELSE IF IsList(body) THEN body
    ELSE PyList(<<>>)

UnauthorizedMsg == "Unauthorized: Failed to authenticate with MobilityDatabase. Check MOBILITY_DB_REFRESH_TOKEN environment variable."

\* The except clauses of fetch_datasets: they catch the exceptions of the
\* requests library; any other exception passes through as it is.
MapFetchError(exc, reply) ==
    IF exc.type = "HTTPError"
    THEN IF reply.status = 401
         THEN Raise("Exception", UnauthorizedMsg)
         ELSE Raise("Exception",
                    "Failed to fetch datasets from MobilityDatabase: " \o exc.msg)
    ELSE IF IsRequestException(exc.type)
    THEN Raise("Exception",
               "Failed to fetch datasets from MobilityDatabase: " \o exc.msg)
    ELSE Raise(exc.type, exc.msg)

\* A fetch that goes on to the GET, without the header, when the token step
\* failed.
fetch_datasets_GetAfterFailedToken(feed_id, env, cache, t, auth_reply, d, get_reply) ==
    Bind(DatasetsUrl(feed_id.s), LAMBDA url :
    Bind(IF Truthy(env)
         THEN get_mobility_db_auth_header(env, cache, t, auth_reply, d)
         ELSE [outcome |-> Return(EmptyDict), cache |-> cache, now |-> t,
               trace |-> <<>>], LAMBDA auth :
        LET headers == IF Raised(auth.outcome) THEN BaseHeaders
                       ELSE WithAuthorization(BaseHeaders, auth.outcome.value)
            called == Append(auth.trace, GetEvent(url, headers, get_reply))
        IN  [outcome |-> IF RequestFails(get_reply)
                         THEN MapFetchError(RequestError(get_reply, url), get_reply)
                         ELSE Return(NormalizeBody(get_reply.body)),
             cache |-> auth.cache, now |-> auth.now, trace |-> called]))


\* fetch_datasets(feed_id), called at time t with the configured refresh token
\* env; the token endpoint would answer auth_reply after d time units, the
\* registry get_reply.
fetch_datasets(feed_id, env, cache, t, auth_reply, d, get_reply) ==
    Bind(DatasetsUrl(feed_id.s), LAMBDA url :
    Bind(IF Truthy(env)
         THEN get_mobility_db_auth_header(env, cache, t, auth_reply, d)
         ELSE [outcome |-> Return(EmptyDict), cache |-> cache, now |-> t,
               trace |-> <<>>], LAMBDA auth :
        IF Raised(auth.outcome)
        THEN [auth EXCEPT !.outcome = MapFetchError(auth.outcome.exc, get_reply)]
        ELSE
        LET headers == WithAuthorization(BaseHeaders, auth.outcome.value)
            called == Append(auth.trace, GetEvent(url, headers, get_reply))
        IN  [outcome |-> IF RequestFails(get_reply)
                         THEN MapFetchError(RequestError(get_reply, url), get_reply)
                         ELSE Return(NormalizeBody(get_reply.body)),
             cache |-> auth.cache, now |-> auth.now, trace |-> called]))

----------------------------------------------------------------------------
(* utils.py: format_date *)

\* The value of the n digits of s that start at i; -1 when they are not n digits.
NumAt(s, i, n) ==
    IF i + n - 1 <= Len(s) /\ AllDigits(SubSeq(s, i, i + n - 1))
    THEN DigitsToNat(SubSeq(s, i, i + n - 1)) ELSE -1

IsLeap(y) == (y % 4 = 0 /\ y % 100 # 0) \/ y % 400 = 0

DaysInMonth(y, m) ==
    CASE m \in {4, 6, 9, 11} -> 30
      [] m = 2 -> IF IsLeap(y) THEN 29 ELSE 28
      [] OTHER -> 31

\* The date datetime(y, m, d) builds, or the ValueError it raises.
MakeDate(y, m, d) ==
    IF y >= 1 /\ y <= 9999 /\ m >= 1 /\ m <= 12 /\ d >= 1 /\ d <= DaysInMonth(y, m)
    THEN [ok |-> TRUE, y |-> y, m |-> m, d |-> d]
    ELSE [ok |-> FALSE]

\* datetime.strptime(s, "%Y-%m-%d"): four digits, "-", a month of one or two
\* digits, "-", a day of one or two digits, and nothing else.
Strptime(s) ==
    LET splits == { ml \in {1, 2} :
                      /\ Len(s) - 6 - ml \in {1, 2}
                      /\ Char(s, 5) = "-"
                      /\ Char(s, 6 + ml) = "-"
                      /\ NumAt(s, 1, 4) >= 0
                      /\ NumAt(s, 6, ml) >= 1
                      /\ NumAt(s, 7 + ml, Len(s) - 6 - ml) >= 1 }
    IN  IF splits = {} THEN [ok |-> FALSE]
        ELSE LET ml == CHOOSE x \in splits : TRUE
             IN  MakeDate(NumAt(s, 1, 4), NumAt(s, 6, ml),
                          NumAt(s, 7 + ml, Len(s) - 6 - ml))

\* s.replace("Z", "+00:00")
RECURSIVE ReplaceZ(_)
ReplaceZ(s) ==
    IF Len(s) = 0 THEN ""
    ELSE IF Len(s) = 1 THEN (IF s = "Z" THEN "+00:00" ELSE s)
    ELSE ReplaceZ(SubSeq(s, 1, Len(s) \div 2))
         \o ReplaceZ(SubSeq(s, Len(s) \div 2 + 1, Len(s)))

\* HH[:MM[:SS[.fff[fff]]]] with each field in range.
ValidClock(ts, lengths) ==
    LET n == Len(ts)
    IN  /\ n \in lengths
        /\ NumAt(ts, 1, 2) >= 0 /\ NumAt(ts, 1, 2) < 24
        /\ n >= 5 => (Char(ts, 3) = ":" /\ NumAt(ts, 4, 2) >= 0 /\ NumAt(ts, 4, 2) < 60)
        /\ n >= 8 => (Char(ts, 6) = ":" /\ NumAt(ts, 7, 2) >= 0 /\ NumAt(ts, 7, 2) < 60)
        /\ n >= 12 => (Char(ts, 9) = "." /\ AllDigits(SubSeq(ts, 10, n)))

\* The time part of an ISO text: a clock, then an optional UTC offset.
ValidIsoTime(ts) ==
    LET signs == {i \in 1..Len(ts) : Char(ts, i) \in {"+", "-"}}
    IN  IF signs = {} THEN ValidClock(ts, {2, 5, 8, 12, 15})
        ELSE LET at == CHOOSE i \in signs : \A j \in signs : i <= j
             IN  /\ ValidClock(SubSeq(ts, 1, at - 1), {2, 5, 8, 12, 15})
                 /\ ValidClock(SubSeq(ts, at + 1, Len(ts)), {5, 8, 15})

\* datetime.fromisoformat(s): YYYY-MM-DD, one separator character, the time.
FromIsoFormat(s) ==
    IF /\ Len(s) >= 10
       /\ NumAt(s, 1, 4) >= 0 /\ Char(s, 5) = "-"
       /\ NumAt(s, 6, 2) >= 0 /\ Char(s, 8) = "-"
       /\ NumAt(s, 9, 2) >= 0
       /\ (Len(s) = 10 \/ (Len(s) > 11 /\ ValidIsoTime(SubSeq(s, 12, Len(s)))))
    THEN MakeDate(NumAt(s, 1, 4), NumAt(s, 6, 2), NumAt(s, 9, 2))
    ELSE [ok |-> FALSE]

\* The digits of n, zero-padded to width w.
RECURSIVE Pad(_, _)
Pad(n, w) == IF w = 0 THEN "" ELSE Pad(n \div 10, w - 1) \o Char(Digits, (n % 10) + 1)

\* date_obj.strftime("%Y%m%d"): %m and %d are two digits; %Y is the year as the
\* C library of the platform prints it, which on Linux (glibc) is without
\* leading zeros.
Strftime(date) == NatToStr(date.y) \o Pad(date.m, 2) \o Pad(date.d, 2)

\* format_date(date_string): YYYYMMDD, "" for None, "" and text that does not
\* parse (the ValueError is caught).
format_date(date_string) ==
    IF ~Truthy(date_string) THEN ""
    ELSE Bind(date_string.s, LAMBDA s :
         Bind(IF Contains(s, "T") THEN Bind(ReplaceZ(s), FromIsoFormat)
              ELSE Strptime(s), LAMBDA date_obj :
             IF date_obj.ok THEN Strftime(date_obj) ELSE ""))

----------------------------------------------------------------------------
(* utils.py: format_archived_feeds *)

\* The ASCII characters from " " to "_" and from "a" to "~", in code order.
PrintableLow == " !\"#$%&'()*+,-./0123456789:;<=>?@ABCDEFGHIJKLMNOPQRSTUVWXYZ[\\]^_"
PrintableHigh == "abcdefghijklmnopqrstuvwxyz{|}~"

\* ord(c)
CodePoint ==
    [c \in {"\t", "\n", "\r"} \cup {Char(PrintableLow, i) : i \in 1..Len(PrintableLow)}
             \cup {Char(PrintableHigh, i) : i \in 1..Len(PrintableHigh)} |->
        CASE c = "\t" -> 9
          [] c = "\n" -> 10
          [] c = "\r" -> 13
          [] \E i \in 1..Len(PrintableLow) : Char(PrintableLow, i) = c ->
                31 + (CHOOSE i \in 1..Len(PrintableLow) : Char(PrintableLow, i) = c)
          [] OTHER ->
                96 + (CHOOSE i \in 1..Len(PrintableHigh) : Char(PrintableHigh, i) = c)]

Ord(c) == CodePoint[c]

\* a < b on str: by code point at the first place they differ, a proper
\* prefix first.
StrLess(a, b) ==
    LET differ == {i \in 1..Len(a) : i > Len(b) \/ Char(a, i) # Char(b, i)}
    IN  IF differ = {} THEN Len(a) < Len(b)
        ELSE LET i == CHOOSE x \in differ : \A y \in differ : x <= y
             IN  i <= Len(b) /\ Ord(Char(a, i)) < Ord(Char(b, i))

\* key=lambda x: x.get("downloaded_at", "")
SortKey(dataset) == DictGet(dataset, "downloaded_at", PyStr(""))

TypeName(v) == IF IsNum(v) THEN "int" ELSE v.type

\* An insertion that puts x before the elements with an equal key too.
InsertDesc_BeforeEqual(srt, x) ==
    LET later == {i \in 1..Len(srt) : ~StrLess(SortKey(x).s, SortKey(srt[i]).s)}
        pos == IF later = {} THEN Len(srt) + 1
               ELSE CHOOSE i \in later : \A j \in later : i <= j
    IN  SubSeq(srt, 1, pos - 1) \o <<x>> \o SubSeq(srt, pos, Len(srt))

\* x goes before the first element whose key is smaller: equal keys keep the
\* order they came in.
InsertDesc(srt, x) ==
    LET smaller == {i \in 1..Len(srt) : StrLess(SortKey(srt[i]).s, SortKey(x).s)}
        pos == IF smaller = {} THEN Len(srt) + 1
               ELSE CHOOSE i \in smaller : \A j \in smaller : i <= j
    IN  SubSeq(srt, 1, pos - 1) \o <<x>> \o SubSeq(srt, pos, Len(srt))

\* The first n datasets, latest first.
RECURSIVE SortPrefix(_, _)
SortPrefix(datasets, n) ==
    IF n = 0 THEN <<>>
    ELSE Bind(SortPrefix(datasets, n - 1), LAMBDA srt : InsertDesc(srt, datasets[n]))

SortDesc(datasets) == SortPrefix(datasets, Len(datasets))

\* sorted(datasets, key=..., reverse=True): the datasets latest first, or the
\* TypeError of the first comparison of two keys that are not both str (the
\* sort compares neighbours from the end of the list).
sorted_datasets(datasets) ==
    LET n == Len(datasets)
        bad == {i \in 1..(n - 1) :
                  ~IsStr(SortKey(datasets[i])) \/ ~IsStr(SortKey(datasets[i + 1]))}
    IN  IF bad = {} THEN Return(SortDesc(datasets))
        ELSE LET i == CHOOSE x \in bad : \A y \in bad : y <= x
             IN  Raise("TypeError",
                       "'<' not supported between instances of '"
                           \o TypeName(SortKey(datasets[i])) \o "' and '"
                           \o TypeName(SortKey(datasets[i + 1])) \o "'")

\* What csv.writer writes for a value: None is the empty field.
CsvText(v) == IF IsNone(v) THEN "" ELSE v.s

RECURSIVE DoubleQuotes(_)
DoubleQuotes(s) ==
    IF Len(s) = 0 THEN ""
    ELSE IF Len(s) = 1 THEN (IF s = "\"" THEN "\"\"" ELSE s)
    ELSE DoubleQuotes(SubSeq(s, 1, Len(s) \div 2))
         \o DoubleQuotes(SubSeq(s, Len(s) \div 2 + 1, Len(s)))

\* A writer that quotes a field without doubling the quotes inside it.
CsvField_QuotesNotDoubled(s) ==
    IF \E i \in 1..Len(s) : Char(s, i) \in {",", "\"", "\r", "\n"}
    THEN "\"" \o s \o "\""
    ELSE s


\* QUOTE_MINIMAL: a field with the delimiter, the quote character or a line
\* break is quoted, its quotes doubled.
CsvField(s) ==
    IF \E i \in 1..Len(s) : Char(s, i) \in {",", "\"", "\r", "\n"}
    THEN "\"" \o DoubleQuotes(s) \o "\""
    ELSE s

RECURSIVE JoinFields(_)
JoinFields(fields) ==
    IF Len(fields) = 0 THEN ""
    ELSE IF Len(fields) = 1 THEN CsvField(fields[1])
    ELSE CsvField(fields[1]) \o "," \o JoinFields(Tail(fields))

\* writer.writerow(fields)
CsvRow(fields) == JoinFields(fields) \o "\r\n"

\* A header without the note column.
HeaderRow_NoNote ==
    CsvRow(<<"feed_start_date", "feed_end_date", "feed_version", "archive_url">>)

HeaderRow ==
    CsvRow(<<"feed_start_date", "feed_end_date", "feed_version", "archive_url",
             "archive_note">>)

\* A row whose feed_version is downloaded_at reformatted as a date.
RowFields_VersionAsDate(dataset) ==
    LET note == DictGet(dataset, "note", PyStr(""))
    IN  << format_date(DictGet(dataset, "service_date_range_start", None)),
           format_date(DictGet(dataset, "service_date_range_end", None)),
           format_date(DictGet(dataset, "downloaded_at", PyStr(""))),
           CsvText(DictGet(dataset, "hosted_url", PyStr(""))),
           CsvText(IF Truthy(note) THEN note ELSE PyStr("")) >>

\* The fields of a dataset's row.
RowFields(dataset) ==
    LET note == DictGet(dataset, "note", PyStr(""))
    IN  << format_date(DictGet(dataset, "service_date_range_start", None)),
           format_date(DictGet(dataset, "service_date_range_end", None)),
           CsvText(DictGet(dataset, "downloaded_at", PyStr(""))),
           CsvText(DictGet(dataset, "hosted_url", PyStr(""))),
           CsvText(IF Truthy(note) THEN note ELSE PyStr("")) >>

\* A filter that looks at the start date alone.
SkipRow_StartOnly(fields, filter_null_dates) ==
    filter_null_dates /\ fields[1] = ""

\* `if filter_null_dates and (not feed_start_date or not feed_end_date): continue`
SkipRow(fields, filter_null_dates) ==
    filter_null_dates /\ (fields[1] = "" \/ fields[2] = "")

\* The loop over the sorted datasets, from the i-th on.
RECURSIVE WriteRows(_, _, _)
WriteRows(datasets, i, filter_null_dates) ==
    IF i > Len(datasets) THEN ""
    ELSE Bind(RowFields(datasets[i]), LAMBDA fields :
             IF SkipRow(fields, filter_null_dates) THEN "" ELSE CsvRow(fields))
         \o WriteRows(datasets, i + 1, filter_null_dates)

\* format_archived_feeds(datasets, filter_null_dates): the CSV text, or the
\* exception the sort raised.  datasets is the decoded JSON value the fetch
\* gave: sorting text or a mapping meets str elements, which have no .get;
\* a number is not iterable.
format_archived_feeds(datasets, filter_null_dates) ==
    IF IsStr(datasets) \/ IsDict(datasets)
    THEN Raise("AttributeError", "'str' object has no attribute 'get'")
    ELSE IF ~IsList(datasets)
    THEN Raise("TypeError", "'" \o TypeName(datasets) \o "' object is not iterable")
    ELSE Bind(sorted_datasets(datasets.items), LAMBDA srt :
             IF Raised(srt) THEN srt
             ELSE Return(HeaderRow \o WriteRows(srt.value, 1, filter_null_dates)))

----------------------------------------------------------------------------
(* app.py *)

\* A handler's response: a body, a status code and the headers it sets.
Response(body, status_code, headers) ==
    [body |-> body, status |-> status_code, headers |-> headers]

JsonHeaders == [Content_Type |-> "application/json"]

CsvHeaders ==
    [Content_Type |-> "text/csv",
     Content_Disposition |-> "attachment; filename=\"archived_feeds.txt\"",
     Cache_Control |-> "no-cache"]

\* A reading of the query parameters that compares the filter with "true"
\* without lowering it.
ParseQuery_CaseSensitive(query_params) ==
    IF IsNone(query_params) \/ DOMAIN query_params.items = {}
    THEN [feed_id |-> None, filter_null_dates |-> FALSE]
    ELSE [feed_id |-> DictGet(query_params.items, "feed_id", None),
          filter_null_dates |->
              DictGet(query_params.items, "filter_null_dates", PyStr("")).s = "true"]


\* The query parameters read at the top of a handler: no collection (or an
\* empty one) is no parameters.
ParseQuery(query_params) ==
    IF IsNone(query_params) \/ DOMAIN query_params.items = {}
    THEN [feed_id |-> None, filter_null_dates |-> FALSE]
    ELSE [feed_id |-> DictGet(query_params.items, "feed_id", None),
          filter_null_dates |->
              Lower(DictGet(query_params.items, "filter_null_dates", PyStr("")).s)
                  = "true"]

FormatEvent(filter_null_dates) ==
    [ev |-> "format_archived_feeds", filter_null_dates |-> filter_null_dates]

\* `except Exception as e: error_msg = str(e)`: the except block is entered
\* with the text of the exception.
ExceptEvent(error_msg) == [ev |-> "except", error_msg |-> error_msg]

\* A body for the empty result that leaves the feed_id out.
NoDatasetsBody_NoFeedId(feed_id) ==
    [error |-> "No datasets found for this feed ID",
     hint |-> "Verify the feed ID exists at https://mobilitydatabase.org"]


NoDatasetsBody(feed_id) ==
    [error |-> "No datasets found for this feed ID", feed_id |-> feed_id,
     hint |-> "Verify the feed ID exists at https://mobilitydatabase.org"]

\* An except block that tests for "unauthorized"/"401" before "not found"/"404".
GenerateFailure_UnauthorizedFirst(error_msg, feed_id) ==
    Bind(Lower(error_msg), LAMBDA lowered :
        IF Contains(lowered, "unauthorized") \/ Contains(error_msg, "401")
        THEN [status |-> 401, error |-> error_msg]
        ELSE IF Contains(lowered, "not found") \/ Contains(error_msg, "404")
        THEN [status |-> 404,
              error |-> "Feed ID " \o feed_id.s \o " not found in MobilityDatabase"]
        ELSE [status |-> 500, error |-> error_msg])

\* The except block of generate_archived_feeds: the status code and the error
\* text for an exception whose text is error_msg.
GenerateFailure(error_msg, feed_id) ==
    Bind(Lower(error_msg), LAMBDA lowered :
        IF Contains(lowered, "not found") \/ Contains(error_msg, "404")
        THEN [status |-> 404,
              error |-> "Feed ID " \o feed_id.s \o " not found in MobilityDatabase"]
        ELSE IF Contains(lowered, "unauthorized") \/ Contains(error_msg, "401")
        THEN [status |-> 401, error |-> error_msg]
        ELSE [status |-> 500, error |-> error_msg])

\* A count of all the datasets fetched.
GenerateCount_All(datasets) == Len(datasets.items)

\* `"count": len(datasets) - 1`
GenerateCount(datasets) == Len(datasets.items) - 1

\* generate_archived_feeds(): GET /generate.  A returned dict is status 200; an
\* error is the pair (body, status).
generate_archived_feeds(query_params, env, cache, t, auth_reply, d, get_reply) ==
    Bind(ParseQuery(query_params), LAMBDA q :
    Bind(validate_feed_id(q.feed_id), LAMBDA v :
        IF ~v.is_valid
        THEN [outcome |-> Return(Response([error |-> v.error_msg.s,
                                           feed_id |-> q.feed_id], 400, EmptyDict)),
              cache |-> cache, now |-> t, trace |-> <<>>]
        ELSE
    Bind(fetch_datasets(q.feed_id, env, cache, t, auth_reply, d, get_reply), LAMBDA f :
        LET datasets == f.outcome.value
            formatted == Append(f.trace, FormatEvent(q.filter_null_dates))
            failure(exc) ==
                Bind(GenerateFailure(exc.msg, q.feed_id), LAMBDA c :
                    Response([error |-> c.error,
                              message |-> "Failed to generate archived feeds",
                              feed_id |-> q.feed_id], c.status, EmptyDict))
            done(response, calls) ==
                [outcome |-> Return(response), cache |-> f.cache, now |-> f.now,
                 trace |-> calls]
        IN  IF Raised(f.outcome)
            THEN done(failure(f.outcome.exc),
                      Append(f.trace, ExceptEvent(f.outcome.exc.msg)))
            ELSE IF ~TruthyJson(datasets)
            THEN done(Response(NoDatasetsBody(q.feed_id), 404, EmptyDict), f.trace)
            ELSE
    Bind(format_archived_feeds(datasets, q.filter_null_dates), LAMBDA csv_content :
            IF Raised(csv_content)
            THEN done(failure(csv_content.exc),
                      Append(formatted, ExceptEvent(csv_content.exc.msg)))
            ELSE done(Response([content |-> csv_content.value,
                                count |-> GenerateCount(datasets),
                                feed_id |-> q.feed_id], 200, EmptyDict),
                      formatted)))))

\* An except block of download_archived_feeds without the tests on the text:
\* every failure is a 500.
DownloadFailure_AlwaysServerError(error_msg, feed_id) ==
    [status |-> 500, error |-> error_msg]


\* The except block of download_archived_feeds.
DownloadFailure(error_msg, feed_id) ==
    Bind(Lower(error_msg), LAMBDA lowered :
        IF Contains(lowered, "not found") \/ Contains(error_msg, "404")
        THEN [status |-> 404,
              error |-> "Feed ID " \o feed_id.s \o " not found in MobilityDatabase"]
        ELSE IF Contains(lowered, "unauthorized") \/ Contains(error_msg, "401")
        THEN [status |-> 401, error |-> error_msg]
        ELSE [status |-> 500, error |-> error_msg])

\* download_archived_feeds(): GET /download
download_archived_feeds(query_params, env, cache, t, auth_reply, d, get_reply) ==
    Bind(ParseQuery(query_params), LAMBDA q :
    Bind(validate_feed_id(q.feed_id), LAMBDA v :
        IF ~v.is_valid
        THEN [outcome |-> Return(Response([error |-> v.error_msg.s,
                                           feed_id |-> q.feed_id], 400, JsonHeaders)),
              cache |-> cache, now |-> t, trace |-> <<>>]
        ELSE
    Bind(fetch_datasets(q.feed_id, env, cache, t, auth_reply, d, get_reply), LAMBDA f :
        LET datasets == f.outcome.value
            formatted == Append(f.trace, FormatEvent(q.filter_null_dates))
            failure(exc) ==
                Bind(DownloadFailure(exc.msg, q.feed_id), LAMBDA c :
                    Response([error |-> c.error,
                              message |-> "Failed to download archived feeds",
                              feed_id |-> q.feed_id], c.status, JsonHeaders))
            done(response, calls) ==
                [outcome |-> Return(response), cache |-> f.cache, now |-> f.now,
                 trace |-> calls]
        IN  IF Raised(f.outcome)
            THEN done(failure(f.outcome.exc),
                      Append(f.trace, ExceptEvent(f.outcome.exc.msg)))
            ELSE IF ~TruthyJson(datasets)
            THEN done(Response(NoDatasetsBody(q.feed_id), 404, JsonHeaders), f.trace)
            ELSE
    Bind(format_archived_feeds(datasets, q.filter_null_dates), LAMBDA csv_content :
            IF Raised(csv_content)
            THEN done(failure(csv_content.exc),
                      Append(formatted, ExceptEvent(csv_content.exc.msg)))
            ELSE done(Response(csv_content.value, 200, CsvHeaders), formatted)))))

DownloadCallEvent == [ev |-> "download_archived_feeds"]

\* A legacy endpoint that serves the request through /generate.
archived_feeds_txt_ViaGenerate(query_params, env, cache, t, auth_reply, d, get_reply) ==
    generate_archived_feeds(query_params, env, cache, t, auth_reply, d, get_reply)


\* archived_feeds_txt(): GET /archived_feeds.txt, `return download_archived_feeds()`
archived_feeds_txt(query_params, env, cache, t, auth_reply, d, get_reply) ==
    Bind(download_archived_feeds(query_params, env, cache, t, auth_reply, d,
                                 get_reply), LAMBDA r :
        [r EXCEPT !.trace = <<DownloadCallEvent>> \o r.trace])

\* index(): GET /
index(cache, t) ==
    [outcome |-> Return(Response([message |-> "GTFS Archive Feed Generator",
                                  endpoint |-> "/generate"], 200, EmptyDict)),
     cache |-> cache, now |-> t, trace |-> <<>>]

----------------------------------------------------------------------------
(* Requests. *)

QP(items) == PyDict(items)

\* The query strings the model sends: no collection, an empty one, a missing,
\* empty or malformed feed_id, and well-formed ones with and without the
\* filter.
QueryParams ==
    { None,
      QP(EmptyDict),
      QP([filter_null_dates |-> PyStr("true")]),
      QP([feed_id |-> PyStr("")]),
      QP([feed_id |-> PyStr("bad")]),
      QP([feed_id |-> PyStr("mdb-503")]),
      QP([feed_id |-> PyStr("mdb-503"), filter_null_dates |-> PyStr("true")]),
      QP([feed_id |-> PyStr("mdb-503"), filter_null_dates |-> PyStr("True")]),
      QP([feed_id |-> PyStr("mdb-503"), filter_null_dates |-> PyStr("yes")]),
      QP([feed_id |-> PyStr("mdb-404")]),
      QP([feed_id |-> PyStr("mdb-401"), filter_null_dates |-> PyStr("true")]) }

DsFull ==
    [service_date_range_start |-> PyStr("2025-11-07"),
     service_date_range_end |-> PyStr("2025-12-13"),
     downloaded_at |-> PyStr("2025-11-14T17:17:24Z"),
     hosted_url |-> PyStr("https://example.com/archive.zip"),
     note |-> PyStr("Test")]

DsNoEnd == [service_date_range_start |-> PyStr("2025-11-07")]

DsNullVersion ==
    [service_date_range_start |-> PyStr("2025-01-01"),
     service_date_range_end |-> PyStr("2025-02-01"),
     downloaded_at |-> None]

DatasetPool == {DsFull, DsNoEnd}

DatasetLists == UNION { [1..n -> DatasetPool] : n \in 0..MaxDatasets }

\* What the registry may answer to the dataset GET.
GetReplies ==
    { HttpReply(200, "OK", PyDict([results |-> PyList(l)])) : l \in DatasetLists }
    \cup { HttpReply(200, "OK", PyList(<<DsNoEnd, DsFull>>)),
           HttpReply(200, "OK", PyDict([results |-> PyList(<<DsNullVersion, DsFull>>)])),
           HttpReply(200, "OK", PyDict([detail |-> PyStr("no results here")])),
           HttpReply(200, "OK", PyDict([results |-> None])),
           HttpReply(200, "OK", None),
           HttpReply(401, "Unauthorized", None),
           HttpReply(404, "Not Found", None),
           HttpReply(400, "Feed Not Found", None),
           HttpReply(500, "Internal Server Error", None),
           NetFailure("ConnectionError", "Connection refused"),
           NetFailure("Timeout", "Read timed out. (read timeout=30)") }

\* What the token endpoint may answer to a request's token exchange.
TokenReplies ==
    { HttpReply(200, "OK", [access_token |-> PyStr("tokA")]),
      HttpReply(200, "OK", [access_token |-> PyStr("tokB"),
                            expires_in |-> PyNum(RefreshMargin + 1)]),
      HttpReply(200, "OK", [expires_in |-> PyNum(DefaultExpiresIn)]),
      HttpReply(200, "OK", [access_token |-> PyStr("tokA"),
                            expires_in |-> PyStr("abc")]),
      HttpReply(401, "Unauthorized", EmptyDict),
      NetFailure("Timeout", "Read timed out. (read timeout=10)") }

\* The reply to a call that is not made.
Unasked == NetFailure("ConnectionError", "")

Asked(ev, r) == \E ran \in {r} : \E i \in 1..Len(ran.trace) : ran.trace[i].ev = ev

\* The upstream answers the calls that are made.
RepliesTo(ev, r, replies) == IF Asked(ev, r) THEN replies ELSE {Unasked}

\* One request to a handler: the query string, and what the token endpoint
\* and the registry answer if the request gets to call them.
Request(name, handler(_, _, _, _, _, _, _)) ==
    \E qp \in QueryParams :
         \E a \in RepliesTo("POST",
                            handler(qp, refresh_env, token_cache, now, Unasked, 0, Unasked),
                            TokenReplies) :
           \E d \in (IF a = Unasked THEN {0} ELSE PostDelays(now)) :
             \E g \in RepliesTo("GET",
                                handler(qp, refresh_env, token_cache, now, a, d, Unasked),
                                GetReplies) :
               Finish(name, qp,
                      handler(qp, refresh_env, token_cache, now, a, d, g))

Generate ==
    /\ pc = "idle"
    /\ Request("generate", generate_archived_feeds)

Download ==
    /\ pc = "idle"
    /\ Request("download", download_archived_feeds)

ArchivedFeedsTxt ==
    /\ pc = "idle"
    /\ Request("archived_feeds_txt", archived_feeds_txt)

Index ==
    /\ pc = "idle"
    /\ Finish("index", None, index(token_cache, now))

Next == Index \/ Generate \/ Download \/ ArchivedFeedsTxt \/ Done \/ Tick

\* The process serving requests one at a time, from the empty cache.
Spec == Init /\ [][Next]_vars

----------------------------------------------------------------------------
(* Direct calls of the functions of utils.py. *)

\* The result of a function that makes no call and leaves the cache alone.
Pure(result) == [outcome |-> result, cache |-> token_cache, now |-> now, trace |-> <<>>]

FetchFeedIds == {PyStr("mdb-503"), PyStr("mdb-401")}

\* What the registry may answer to a direct fetch: the answers the handlers
\* get, and bodies that are neither a list nor a mapping.
FetchReplies ==
    GetReplies \cup { HttpReply(200, "OK", PyStr("maintenance")),
                      HttpReply(200, "OK", PyNum(7)),
                      HttpReply(200, "OK", PyDict([results |-> PyStr("none")])),
                      HttpReply(403, "Forbidden", None) }

\* A direct call of utils.fetch_datasets(feed_id).
FetchDatasets ==
    /\ pc = "idle"
    /\ \E feed_id \in FetchFeedIds :
         \E a \in RepliesTo("POST",
                            fetch_datasets(feed_id, refresh_env, token_cache, now,
                                           Unasked, 0, Unasked),
                            TokenReplies) :
           \E d \in (IF a = Unasked THEN {0} ELSE PostDelays(now)) :
             \E g \in RepliesTo("GET",
                                fetch_datasets(feed_id, refresh_env, token_cache, now,
                                               a, d, Unasked),
                                FetchReplies) :
               Finish("fetch_datasets", feed_id,
                      fetch_datasets(feed_id, refresh_env, token_cache, now, a, d, g))

NextUtils == FetchDatasets \/ Done \/ Tick

\* fetch_datasets called one call at a time, from the empty cache.
SpecUtils == Init /\ [][NextUtils]_vars

\* Dataset records as the registry gives them: every field a text, null or
\* absent; two of them downloaded at the same time.
RowJan ==
    [service_date_range_start |-> PyStr("2025-01-01"),
     service_date_range_end |-> PyStr("2025-06-30"),
     downloaded_at |-> PyStr("2025-01-10"),
     hosted_url |-> PyStr("https://example.com/jan.zip"),
     note |-> PyStr("first, of \"two\"")]

RowMar ==
    [service_date_range_start |-> PyStr("2025-02-01T00:00:00Z"),
     service_date_range_end |-> PyStr("not-a-date"),
     downloaded_at |-> PyStr("2025-03-10"),
     hosted_url |-> None,
     note |-> None]

RowJanAgain ==
    [service_date_range_start |-> None,
     service_date_range_end |-> PyStr("2025-09-30"),
     downloaded_at |-> PyStr("2025-01-10"),
     note |-> PyStr("")]

\* A dataset whose fields hold the characters CSV gives a meaning to: a comma
\* in the url, double quotes and a line break in the note.
RowQuoted ==
    [service_date_range_start |-> PyStr("2025-05-01"),
     service_date_range_end |-> PyStr("2025-05-31"),
     downloaded_at |-> PyStr("2025-05-02"),
     hosted_url |-> PyStr("https://example.com/a,b.zip"),
     note |-> PyStr("\"quoted\"\nsecond line")]


RowPool == {RowJan, RowMar, RowJanAgain, RowQuoted, DsNoEnd, DsNullVersion}

FormatInputs == UNION { [1..n -> RowPool] : n \in 0..MaxRows }

\* A direct call of utils.format_archived_feeds(datasets, filter_null_dates).
FormatArchivedFeeds ==
    /\ pc = "idle"
    /\ \E datasets \in FormatInputs, filter_null_dates \in BOOLEAN :
          Finish("format_archived_feeds",
                 [datasets |-> datasets, filter_null_dates |-> filter_null_dates],
                 Pure(format_archived_feeds(PyList(datasets), filter_null_dates)))

\* Date texts: none, empty, date-only, date and time with Z, with fractional
\* seconds, with an offset, a leap day, a year before 1000, and texts that do
\* not parse.
DateInputs ==
    { None, PyStr(""),
      PyStr("2025-11-14"), PyStr("2024-02-29"), PyStr("0005-01-01"),
      PyStr("2025-11-14T17:17:24Z"), PyStr("2025-11-14T17:17:24.123456Z"),
      PyStr("2025-06-30T23:30:00-05:00"), PyStr("0999-12-31T00:00:00Z"),
      PyStr("not-a-date"), PyStr("2025-13-45T99:99:99Z"), PyStr("2025-02-30"),
      PyStr("2025-11-14 17:17:24"), PyStr("2025-11-14T"), PyStr("T"),
      PyStr("2025/11/14"), PyStr("2025-11-14\n") }

\* A direct call of utils.format_date(date_string).
FormatDate ==
    /\ pc = "idle"
    /\ \E date_string \in DateInputs :
          Finish("format_date", date_string, Pure(Return(format_date(date_string))))

\* Feed ids: none, empty, well-formed, and malformed in case, prefix, digits,
\* surrounding space and line ends.
FeedIdInputs ==
    { None, PyStr(""),
      PyStr("mdb-503"), PyStr("mdb-0"), PyStr("mdb-1234567890"),
      PyStr("mdb-"), PyStr("mdb"), PyStr("bad"), PyStr("MDB-1"), PyStr("mdb-5a"),
      PyStr("mdb--5"), PyStr(" mdb-1"), PyStr("mdb-1 "), PyStr("xmdb-1"),
      PyStr("503"), PyStr("mdb-503\n"), PyStr("mdb-503\n\n"), PyStr("\nmdb-503") }

\* A direct call of utils.validate_feed_id(feed_id).
ValidateFeedId ==
    /\ pc = "idle"
    /\ \E feed_id \in FeedIdInputs :
          Finish("validate_feed_id", feed_id, Pure(Return(validate_feed_id(feed_id))))

NextPure == FormatArchivedFeeds \/ FormatDate \/ ValidateFeedId \/ Done

\* The functions of utils.py that make no call, called one at a time.
SpecPure == Init /\ [][NextPure]_vars

----------------------------------------------------------------------------
(* What the claims read off an operation that has ended. *)

EventsOf(ev) == {i \in 1..Len(trace) : trace[i].ev = ev}
Made(ev) == EventsOf(ev) # {}
TheEvent(ev) == trace[CHOOSE i \in EventsOf(ev) : TRUE]

AuthOpDone == pc = "done" /\ op.name \in {"refresh_access_token", "get_valid_access_token"}

IsSet(v) == ~IsNone(v)

----------------------------------------------------------------------------
(* The request handlers. *)

HandlerNames == {"generate", "download", "archived_feeds_txt"}

\* A request to one of the feed handlers has been answered.
Answered == pc = "done" /\ op.name \in HandlerNames

\* The feed_id the request carried, None when it carried none.
RequestFeedId ==
    IF IsNone(op.arg) \/ "feed_id" \notin DOMAIN op.arg.items THEN None
    ELSE op.arg.items.feed_id

\* The response the handler returned.
TheResponse == outcome.value

\* The texts the except block of the handler was entered with.
ExceptMessages == {trace[i].error_msg : i \in EventsOf("except")}

\* The dataset GET was answered without an error, and what fetch_datasets
\* returned for it.
FetchReturned == Made("GET") /\ ~RequestFails(TheEvent("GET").reply)
FetchedDatasets == NormalizeBody(TheEvent("GET").reply.body)

\* The number of records of a CSV text: its "\r\n" terminators.
CsvLines(content) ==
    Cardinality({i \in 1..(Len(content) - 1) : SubSeq(content, i, i + 1) = "\r\n"})

\* The body the registry answered the dataset GET with.
GetBody == TheEvent("GET").reply.body

FetchDone == pc = "done" /\ op.name = "fetch_datasets"

\* C11: fetch_datasets returns the value of results for a mapping that has the
\* key, a body that is a list as it is, and the empty list for every other body;
\* a decoded body never makes it raise.
C11_ResponseNormalization ==
    (FetchDone /\ FetchReturned) =>
        /\ Returned(outcome)
        /\ outcome.value =
              (IF GetBody.type = "dict" /\ "results" \in DOMAIN GetBody.items
               THEN GetBody.items.results
               ELSE IF GetBody.type = "list" THEN GetBody
               ELSE [type |-> "list", items |-> <<>>])

\* A fetch got a mapping without results and returned the empty list.
C11_Witness ==
    /\ FetchDone
    /\ FetchReturned
    /\ GetBody = PyDict([detail |-> PyStr("no results here")])
    /\ outcome = Return(PyList(<<>>))

\* The text of the failure under the exception fetch_datasets raised: the
\* failure of the GET when it was issued, of the token exchange otherwise.
UnderlyingFailure ==
    IF Made("GET")
    THEN RequestError(TheEvent("GET").reply, TheEvent("GET").url).msg
    ELSE IF Made("POST") /\ RequestFails(TheEvent("POST").reply)
    THEN RequestError(TheEvent("POST").reply, TOKEN_ENDPOINT).msg
    ELSE ""

\* The registry answered the dataset GET with HTTP 401.
GetUnauthorized ==
    /\ Made("GET")
    /\ TheEvent("GET").reply.net = "response"
    /\ TheEvent("GET").reply.status = 401

\* C12: every failure of fetch_datasets is an exception whose message starts
\* with "Unauthorized" and names the credential when the registry answered 401,
\* and otherwise starts with "Failed to fetch datasets from MobilityDatabase" and
\* holds the message of the failure under it, a failed token exchange included.
C12_FetchFailureMapping ==
    (FetchDone /\ Raised(outcome)) =>
        /\ outcome.exc.type = "Exception"
        /\ IF GetUnauthorized
           THEN /\ StartsWith(outcome.exc.msg, "Unauthorized")
                /\ Contains(outcome.exc.msg, "MOBILITY_DB_REFRESH_TOKEN")
           ELSE /\ StartsWith(outcome.exc.msg,
                              "Failed to fetch datasets from MobilityDatabase")
                /\ Contains(outcome.exc.msg, UnderlyingFailure)

\* The token the token cache gives the operation: the cached one when it was
\* valid at the start, the one the token endpoint answered otherwise.
TokenForRequest ==
    IF CachedTokenValid(pre_cache, started_at) THEN pre_cache.access_token.s
    ELSE TheEvent("POST").reply.body.access_token.s

\* C13: the dataset GET has the header Authorization: Bearer <token> exactly
\* when a refresh token is configured, and the token is the one the token cache
\* gave for this call; without a configured refresh token the GET is issued
\* without the header, no refresh is called, no POST is made and the cache is
\* left alone.
C13_AuthorizationHeader ==
    FetchDone =>
        /\ ~Truthy(refresh_env) =>
              /\ Made("GET")
              /\ "Authorization" \notin DOMAIN TheEvent("GET").headers
              /\ ~Made("refresh_access_token")
              /\ ~Made("POST")
              /\ token_cache = pre_cache
        /\ (Truthy(refresh_env) /\ Made("GET")) =>
              /\ "Authorization" \in DOMAIN TheEvent("GET").headers
              /\ TheEvent("GET").headers.Authorization = "Bearer " \o TokenForRequest

\* A fetch with a configured refresh token found a valid token in the cache and
\* sent it with the GET, without a token exchange.
C13_Witness ==
    /\ FetchDone
    /\ Truthy(refresh_env)
    /\ Made("GET")
    /\ ~Made("POST")
    /\ TheEvent("GET").headers.Authorization = "Bearer tokB"

----------------------------------------------------------------------------
(* format_archived_feeds called directly. *)

FormatDone == pc = "done" /\ op.name = "format_archived_feeds"

\* The datasets and the flag the call was given.
Input == op.arg.datasets
Filter == op.arg.filter_null_dates

HeaderLine == "feed_start_date,feed_end_date,feed_version,archive_url,archive_note\r\n"

\* The text of field k of dataset d, empty when the field is absent or null.
FieldText(d, k) == IF k \in DOMAIN d /\ ~IsNone(d[k]) THEN d[k].s ELSE ""

\* Field k of dataset d converted to YYYYMMDD.
DateOf(d, k) == format_date(IF k \in DOMAIN d THEN d[k] ELSE None)

\* The five fields the row of dataset d is to hold.
ExpectedFields(d) ==
    << DateOf(d, "service_date_range_start"), DateOf(d, "service_date_range_end"),
       FieldText(d, "downloaded_at"), FieldText(d, "hosted_url"), FieldText(d, "note") >>

\* Dataset d is to have a row: the filter is off, or both dates converted.
Emitted(d, flt) ==
    ~flt \/ (DateOf(d, "service_date_range_start") # ""
             /\ DateOf(d, "service_date_range_end") # "")

\* No dataset has a null downloaded_at.
KeysAreText(ds) ==
    \A i \in 1..Len(ds) :
        "downloaded_at" \in DOMAIN ds[i] => IsStr(ds[i].downloaded_at)

\* The order that puts the datasets latest first by downloaded_at as text, a
\* missing one as "", equal ones in the order they came in.
LatestFirst(ds) ==
    CHOOSE p \in [1..Len(ds) -> 1..Len(ds)] :
        \A i, j \in 1..Len(ds) :
            i < j =>
                \/ StrLess(FieldText(ds[p[j]], "downloaded_at"),
                           FieldText(ds[p[i]], "downloaded_at"))
                \/ /\ FieldText(ds[p[j]], "downloaded_at")
                         = FieldText(ds[p[i]], "downloaded_at")
                   /\ p[i] < p[j]

\* The rows of the datasets that are to have one, in the order p, from the
\* i-th on.
RECURSIVE RowsInOrder(_, _, _, _)
RowsInOrder(ds, p, flt, i) ==
    IF i > Len(ds) THEN ""
    ELSE (IF Emitted(ds[p[i]], flt) THEN CsvRow(ExpectedFields(ds[p[i]])) ELSE "")
         \o RowsInOrder(ds, p, flt, i + 1)

\* The places in a CSV text where a record ends.
LineEnds(content) ==
    {i \in 1..(Len(content) - 1) : SubSeq(content, i, i + 1) = "\r\n"}

\* The records of a CSV text, without their terminators.
CsvRecords(content) ==
    { SubSeq(content,
             (IF \E b \in LineEnds(content) : b < e
              THEN (CHOOSE b \in LineEnds(content) :
                       b < e /\ \A c \in LineEnds(content) : c < e => c <= b) + 2
              ELSE 1),
             e - 1) : e \in LineEnds(content) }

\* The number of fields of a CSV record: one more than its commas outside
\* quotes.
FieldCount(record) ==
    1 + Cardinality({i \in 1..Len(record) :
                        /\ Char(record, i) = ","
                        /\ Cardinality({j \in 1..(i - 1) : Char(record, j) = "\""}) % 2 = 0})

\* C14: format_archived_feeds never raises on datasets whose fields are each
\* absent, null or a text, with the filter on or off.
C14_FormatNeverRaises == FormatDone => Returned(outcome)

\* C15: the rows are ordered by downloaded_at as text, latest first, a missing
\* downloaded_at as the empty text and so last, equal ones in input order.
C15_LatestFirst ==
    (FormatDone /\ Returned(outcome) /\ KeysAreText(Input)) =>
        \A p \in {LatestFirst(Input)} :
            outcome.value = HeaderLine \o RowsInOrder(Input, p, Filter, 1)

\* Three datasets, the first and the last downloaded at the same time, the
\* second later: the second comes first, the other two keep their order.
C15_Witness ==
    /\ FormatDone
    /\ Input = <<RowJan, RowMar, RowJanAgain>>
    /\ ~Filter
    /\ outcome = Return(HeaderLine \o CsvRow(ExpectedFields(RowMar))
                            \o CsvRow(ExpectedFields(RowJan))
                            \o CsvRow(ExpectedFields(RowJanAgain)))

\* C16: with the filter on a dataset has a row exactly when both its dates
\* convert; with the filter off every dataset has exactly one row, whose date
\* fields are empty where the date did not convert.
C16_FilterNullDates ==
    (FormatDone /\ Returned(outcome)) =>
        /\ CsvLines(outcome.value) - 1
              = Cardinality({i \in 1..Len(Input) : Emitted(Input[i], Filter)})
        /\ ~Filter => CsvLines(outcome.value) - 1 = Len(Input)
        /\ (Len(Input) = 1 /\ Emitted(Input[1], Filter)) =>
              StartsWith(outcome.value,
                         HeaderLine \o DateOf(Input[1], "service_date_range_start")
                             \o "," \o DateOf(Input[1], "service_date_range_end")
                             \o ",")

\* With the filter on, of three datasets the one with an end date that does not
\* parse and the one with a null start date have no row: one row is left.
C16_Witness ==
    /\ FormatDone
    /\ Input = <<RowJan, RowMar, RowJanAgain>>
    /\ Filter
    /\ outcome = Return(HeaderLine \o CsvRow(ExpectedFields(RowJan)))

\* C17: the output starts with the header row whatever the number of datasets,
\* and is the header row alone for no datasets.
C17_HeaderFirst ==
    (FormatDone /\ Returned(outcome)) =>
        /\ StartsWith(outcome.value, HeaderLine)
        /\ Len(Input) = 0 => outcome.value = HeaderLine

\* The empty list was formatted: the header line and nothing else.
C17_Witness ==
    /\ FormatDone
    /\ Input = <<>>
    /\ outcome = Return(HeaderLine)

\* C18: every row has five fields; the row of a dataset holds its two converted
\* dates, downloaded_at as it is, hosted_url and note, each empty when absent
\* or null.
C18_RowFields ==
    (FormatDone /\ Returned(outcome)) =>
        /\ \A record \in CsvRecords(outcome.value) : FieldCount(record) = 5
        /\ (Len(Input) = 1 /\ Emitted(Input[1], Filter)) =>
              outcome.value = HeaderLine \o CsvRow(ExpectedFields(Input[1]))

\* A dataset with a null hosted_url and a null note: its row has the version
\* as downloaded_at gave it and two empty fields at the end.
C18_Witness ==
    /\ FormatDone
    /\ Input = <<RowMar>>
    /\ outcome = Return(HeaderLine \o "20250201,,2025-03-10,,\r\n")

----------------------------------------------------------------------------
(* format_date and validate_feed_id called directly. *)

FormatDateDone == pc = "done" /\ op.name = "format_date"

\* The date texts of the model that are a calendar date YYYY-MM-DD, alone or
\* followed by T and a time of day.
WellFormedDates ==
    { PyStr("2025-11-14"), PyStr("2024-02-29"), PyStr("0005-01-01"),
      PyStr("2025-11-14T17:17:24Z"), PyStr("2025-11-14T17:17:24.123456Z"),
      PyStr("2025-06-30T23:30:00-05:00"), PyStr("0999-12-31T00:00:00Z") }

\* The eight digits of the date a well-formed text starts with.
WrittenDate(s) == SubSeq(s, 1, 4) \o SubSeq(s, 6, 7) \o SubSeq(s, 9, 10)

\* C19: format_date never raises on None or a text; it returns the eight digits
\* YYYYMMDD of the date written in a well-formed date or date-time text, and
\* the empty text for None, "" and every text that does not parse.
C19_FormatDateTotal ==
    FormatDateDone =>
        /\ Returned(outcome)
        /\ outcome.value =
              (IF op.arg \in WellFormedDates THEN WrittenDate(op.arg.s) ELSE "")

ValidateDone == pc = "done" /\ op.name = "validate_feed_id"

\* The text is "mdb-", then one or more digits, then nothing.
IsMdbNumber(s) ==
    /\ Len(s) > 4
    /\ SubSeq(s, 1, 4) = "mdb-"
    /\ \A i \in 5..Len(s) : Char(s, i) \in {Char(Digits, k) : k \in 1..10}

\* C20: validate_feed_id accepts exactly the texts "mdb-" followed by one or
\* more digits and nothing else; it refuses None and "" with "Feed ID is
\* required" and every other text with "Invalid feed ID format: <value>.
\* Expected format: mdb-123".
C20_ValidateFeedId ==
    ValidateDone =>
        /\ Returned(outcome)
        /\ outcome.value =
              (IF IsNone(op.arg) \/ op.arg.s = ""
               THEN [is_valid |-> FALSE, error_msg |-> PyStr("Feed ID is required")]
               ELSE IF IsMdbNumber(op.arg.s)
               THEN [is_valid |-> TRUE, error_msg |-> None]
               ELSE [is_valid |-> FALSE,
                     error_msg |-> PyStr("Invalid feed ID format: " \o op.arg.s
                                         \o ". Expected format: mdb-123")])

\* C1: when the fetch or the format step of a handler fails with message m, the
\* status is 404 if m contains "not found" in any case or "404", and the error
\* text is then "Feed ID <id> not found in MobilityDatabase"; otherwise 401 if m
\* contains "unauthorized" in any case or "401"; otherwise 500; in the last two
\* cases the error text is m.  A failed GET always enters the except block.
C1_FailureClassification ==
    Answered =>
        /\ (Made("GET") /\ RequestFails(TheEvent("GET").reply)) => ExceptMessages # {}
        /\ \A m \in ExceptMessages : \A lowered \in {Lower(m)} :
              LET not_found == Contains(lowered, "not found") \/ Contains(m, "404")
                  unauthorized == Contains(lowered, "unauthorized") \/ Contains(m, "401")
              IN  /\ Returned(outcome)
                  /\ TheResponse.status =
                        (IF not_found THEN 404 ELSE IF unauthorized THEN 401 ELSE 500)
                  /\ TheResponse.body.error =
                        (IF not_found
                         THEN "Feed ID " \o RequestFeedId.s
                                  \o " not found in MobilityDatabase"
                         ELSE m)
                  /\ TheResponse.body.feed_id = RequestFeedId

\* /generate failed with a message that holds both "404" and "401", and
\* answered 404 with the rewritten text.
C1_Witness ==
    /\ pc = "done" /\ op.name = "generate"
    /\ \E m \in ExceptMessages : Contains(m, "404") /\ Contains(m, "401")
    /\ TheResponse.status = 404
    /\ TheResponse.body.error = "Feed ID mdb-401 not found in MobilityDatabase"

C3_NoDatasets ==
    (Answered /\ FetchReturned /\ FetchedDatasets = PyList(<<>>)) =>
        /\ Returned(outcome)
        /\ TheResponse.status = 404
        /\ {"error", "feed_id", "hint"} \subseteq DOMAIN TheResponse.body
        /\ TheResponse.body.feed_id = RequestFeedId
        /\ ~Made("format_archived_feeds")
        /\ ~Made("except")

\* /download got an empty result list from the registry and answered 404.
C3_Witness ==
    /\ pc = "done" /\ op.name = "download"
    /\ FetchReturned
    /\ TheEvent("GET").reply.body = PyDict([results |-> PyList(<<>>)])
    /\ TheResponse.status = 404
    /\ "hint" \in DOMAIN TheResponse.body

\* C4: the count of a successful /generate response is the number of data rows
\* of its content, the CSV lines less the header line.
C4_CountIsRowsEmitted ==
    (pc = "done" /\ op.name = "generate" /\ Returned(outcome)
        /\ TheResponse.status = 200) =>
        TheResponse.body.count = CsvLines(TheResponse.body.content) - 1

\* C5: the count of a successful /generate response built from n >= 1 fetched
\* datasets is n - 1, whatever filter_null_dates is.
C5_CountIsFetchedLessOne ==
    (pc = "done" /\ op.name = "generate" /\ Returned(outcome)
        /\ TheResponse.status = 200) =>
        /\ FetchReturned
        /\ IsList(FetchedDatasets)
        /\ Len(FetchedDatasets.items) >= 1
        /\ TheResponse.body.count = Len(FetchedDatasets.items) - 1

\* /generate with filter_null_dates=true fetched one dataset without an end
\* date: the content is the header alone and the count is 0.
C5_Witness ==
    /\ pc = "done" /\ op.name = "generate"
    /\ Returned(outcome)
    /\ TheResponse.status = 200
    /\ FetchReturned
    /\ FetchedDatasets = PyList(<<DsNoEnd>>)
    /\ TheResponse.body.content = HeaderRow
    /\ TheResponse.body.count = 0

----------------------------------------------------------------------------
(* The token cache. *)

\* The reply the token endpoint gave to the POST of the operation.
PostReply == TheEvent("POST").reply

\* The number the auth response gives as expires_in, 3600 when it gives none.
ExpiresInOf(body) ==
    IF "expires_in" \notin DOMAIN body THEN 3600
    ELSE IF IsNum(body.expires_in) THEN body.expires_in.n
    ELSE DigitsToNat(body.expires_in.s)

\* C6: get_valid_access_token returns the cached token without a refresh call
\* exactly when both cache fields are set and the time of the check is strictly
\* before expires_at; in every other cache state it calls refresh once, with the
\* refresh token it was given, and returns what that call returned or raised.
C6_ValidityCheck ==
    (pc = "done" /\ op.name = "get_valid_access_token") =>
        LET valid == /\ IsSet(pre_cache.access_token)
                     /\ IsSet(pre_cache.expires_at)
                     /\ started_at < pre_cache.expires_at.n
            reply == IF Made("POST") THEN PostReply
                     ELSE NetFailure("ConnectionError", "")
        IN  IF valid
            THEN /\ trace = <<>>
                 /\ outcome = Return(pre_cache.access_token)
                 /\ token_cache = pre_cache
            ELSE /\ Cardinality(EventsOf("refresh_access_token")) = 1
                 /\ trace[1] = CallEvent(op.arg)
                 /\ outcome = refresh_access_token(op.arg, pre_cache, started_at,
                                                   reply, now - started_at).outcome

\* C6 witness: the check ran at the very instant the cached token expires, and
\* the refresh was called.
C6_Witness ==
    /\ pc = "done" /\ op.name = "get_valid_access_token"
    /\ IsSet(pre_cache.access_token) /\ IsSet(pre_cache.expires_at)
    /\ started_at = pre_cache.expires_at.n
    /\ Cardinality(EventsOf("refresh_access_token")) = 1

\* C7: a refresh that succeeds at time now stores the access token of the
\* response, sets expires_at to now + expires_in - 60 (expires_in taken from the
\* response, 3600 when it has none) and returns that access token.
C7_SuccessfulRefresh ==
    (AuthOpDone /\ Made("refresh_access_token") /\ Returned(outcome)) =>
        /\ Made("POST")
        /\ outcome.value = PostReply.body.access_token
        /\ token_cache.access_token = PostReply.body.access_token
        /\ token_cache.expires_at = PyNum(now + ExpiresInOf(PostReply.body) - 60)

\* C7 witness: a refresh succeeded on a response without expires_in.
C7_Witness ==
    /\ AuthOpDone /\ Made("refresh_access_token") /\ Returned(outcome)
    /\ "expires_in" \notin DOMAIN PostReply.body
    /\ token_cache.expires_at = PyNum(now + 3540)

\* C8: a refresh with an absent, empty or shorter-than-10 refresh token fails
\* with the invalid-refresh-token-format error and makes no POST; a refresh
\* token of 10 characters or more passes, and the POST is made.
C8_RefreshPrecondition ==
    (AuthOpDone /\ Made("refresh_access_token")) =>
        LET rt == TheEvent("refresh_access_token").refresh_token
        IN  IF IsNone(rt) \/ Len(rt.s) < 10
            THEN /\ Raised(outcome)
                 /\ Contains(Lower(outcome.exc.msg), "invalid refresh token format")
                 /\ ~Made("POST")
                 /\ token_cache = pre_cache
            ELSE Made("POST")

\* C8 witness: a refresh with a 9-character token was refused.
C8_Witness ==
    /\ AuthOpDone /\ Made("refresh_access_token")
    /\ TheEvent("refresh_access_token").refresh_token = PyStr("123456789")
    /\ Raised(outcome) /\ ~Made("POST")

\* C9: a refresh whose POST fails (no connection, timeout, 4xx or 5xx status) or
\* whose response lacks an access token raises; whatever the cause the exception
\* is of the one kind the module raises, and its message holds the cause's text.
C9_RefreshFailure ==
    (AuthOpDone /\ Made("POST")) =>
        LET r == PostReply
            lacks == r.net = "response" /\ r.status = 200
                     /\ ~Truthy(DictGet(r.body, "access_token", None))
            cause == IF r.net = "failure" THEN r.text
                     ELSE IF r.status # 200
                     THEN IntToStr(r.status) \o " " \o
                          (IF r.status < 500 THEN "Client" ELSE "Server")
                          \o " Error: " \o r.reason \o " for url: " \o TOKEN_ENDPOINT
                     ELSE IF Returned(PyInt(DictGet(r.body, "expires_in", PyNum(3600))))
                     THEN "No access token in response"
                     ELSE PyInt(r.body.expires_in).exc.msg
        IN  (r.net = "failure" \/ r.status # 200 \/ lacks) =>
                /\ Raised(outcome)
                /\ outcome.exc.type = "Exception"
                /\ Contains(outcome.exc.msg, cause)
                /\ token_cache = pre_cache

\* C9 witness: the POST timed out and the refresh raised.
C9_Witness ==
    /\ AuthOpDone /\ Made("POST")
    /\ PostReply.net = "failure" /\ PostReply.type = "Timeout"
    /\ Raised(outcome) /\ Contains(outcome.exc.msg, "Read timed out")

----------------------------------------------------------------------------
(* The handlers against each other. *)

\* What the upstream answered the request that has ended: the reply to the
\* token POST, the time the POST took and the reply to the dataset GET.
AuthReplyOf == IF Made("POST") THEN TheEvent("POST").reply ELSE Unasked
PostDelayOf == now - started_at
GetReplyOf == IF Made("GET") THEN TheEvent("GET").reply ELSE Unasked

\* What /generate and /download answer to the request that has ended: the same
\* query parameters, the same cache and clock at the start, the same upstream.
AsGenerate ==
    generate_archived_feeds(op.arg, refresh_env, pre_cache, started_at,
                            AuthReplyOf, PostDelayOf, GetReplyOf).outcome.value
AsDownload ==
    download_archived_feeds(op.arg, refresh_env, pre_cache, started_at,
                            AuthReplyOf, PostDelayOf, GetReplyOf).outcome.value

C22_ArchivedFeedsTxtDelegates ==
    (pc = "done" /\ op.name = "archived_feeds_txt") =>
        /\ TheResponse = AsDownload
        /\ Cardinality(EventsOf("download_archived_feeds")) = 1
        /\ trace[1] = DownloadCallEvent

\* /archived_feeds.txt answered a failed fetch as /download does, 401 with the
\* JSON headers and the text of /download.
C22_Witness ==
    /\ pc = "done" /\ op.name = "archived_feeds_txt"
    /\ Cardinality(EventsOf("download_archived_feeds")) = 1
    /\ Made("GET")
    /\ TheResponse.status = 401
    /\ TheResponse.headers = JsonHeaders
    /\ TheResponse.body.message = "Failed to download archived feeds"
    /\ TheResponse = AsDownload

\* C23: every response of /generate, /download and /archived_feeds.txt whose
\* status is not 200 (the 400 of a validation failure, the 404 of an empty
\* result, the 404, 401 or 500 of a failure) has a JSON body that holds error
\* and feed_id, and feed_id is the value the request carried, null when it
\* carried none.
C23_ErrorBody ==
    (Answered /\ TheResponse.status # 200) =>
        /\ TheResponse.status \in {400, 401, 404, 500}
        /\ {"error", "feed_id"} \subseteq DOMAIN TheResponse.body
        /\ TheResponse.body.error \in STRING
        /\ TheResponse.body.feed_id = RequestFeedId
        /\ op.name # "generate" => TheResponse.headers = JsonHeaders

\* /download answered an empty dataset list with 404 and the feed_id of the
\* request.
C23_Witness ==
    /\ pc = "done" /\ op.name = "download"
    /\ Made("GET") /\ ~RequestFails(TheEvent("GET").reply)
    /\ TheResponse.status = 404
    /\ TheResponse.body.error = "No datasets found for this feed ID"
    /\ TheResponse.body.feed_id = PyStr("mdb-503")

\* The text "true" in every mix of upper and lower case.
TrueAnyCase ==
    { a \o b \o c \o e : a \in {"t", "T"}, b \in {"r", "R"}, c \in {"u", "U"},
                         e \in {"e", "E"} }

\* The value of filter_null_dates in the request, "" when it has none.
RequestFilterValue ==
    IF IsNone(op.arg) \/ "filter_null_dates" \notin DOMAIN op.arg.items THEN ""
    ELSE op.arg.items.filter_null_dates.s

ValidFeedId == Answered /\ TheResponse.status # 400

\* The registry answered the dataset GET that the feed is unknown: HTTP 404,
\* or a reason that says not found.
UpstreamUnknownFeed ==
    /\ Made("GET")
    /\ TheEvent("GET").reply.net = "response"
    /\ \/ TheEvent("GET").reply.status = 404
       \/ Contains(Lower(TheEvent("GET").reply.reason), "not found")

\* The registry answered the dataset GET with a list that is empty.
UpstreamEmptyList == FetchReturned /\ ~TruthyJson(FetchedDatasets)

\* Authentication with the upstream failed: the registry answered the GET with
\* HTTP 401, or the token step failed and no GET was made.
UpstreamAuthFailure ==
    \/ GetUnauthorized
    \/ Made("refresh_access_token") /\ ~Made("GET")

\* The dataset GET failed, and neither as an unknown feed nor as an
\* authentication failure: another HTTP error status, no connection, a timeout.
UpstreamOtherFailure ==
    /\ Made("GET")
    /\ RequestFails(TheEvent("GET").reply)
    /\ ~UpstreamUnknownFeed
    /\ ~GetUnauthorized

\* C25: for every valid feed_id the status tells the kind of failure: 404 only
\* when the registry reported the feed unknown or returned an empty dataset
\* list, 401 only for an authentication failure with the upstream, and 500 for
\* an upstream failure that is neither (HTTP 500, a timeout), whatever digits
\* the feed_id holds.
C25_StatusTellsFailureKind ==
    ValidFeedId =>
        /\ TheResponse.status = 404 => (UpstreamUnknownFeed \/ UpstreamEmptyList)
        /\ TheResponse.status = 401 => UpstreamAuthFailure
        /\ UpstreamOtherFailure => TheResponse.status = 500

----------------------------------------------------------------------------
(* The output of format_archived_feeds read back as CSV. *)

\* The k-th smallest of a set of numbers.
Nth(S, k) == CHOOSE x \in S : Cardinality({y \in S : y < x}) = k - 1

\* The characters of s from lo to hi without those at the places in drop.
RECURSIVE Without(_, _, _, _)
Without(s, drop, lo, hi) ==
    IF lo > hi THEN ""
    ELSE IF lo = hi THEN (IF lo \in drop THEN "" ELSE Char(s, lo))
    ELSE Without(s, drop, lo, (lo + hi) \div 2)
         \o Without(s, drop, (lo + hi) \div 2 + 1, hi)

\* The places of the double quotes of a text.
QuotePlaces(s) == {i \in 1..Len(s) : Char(s, i) = "\""}

\* The value of a field as a CSV reader gives it: a field in double quotes
\* loses them, and each pair of double quotes inside it is one double quote.
Unquoted(raw) ==
    IF Len(raw) >= 2 /\ Char(raw, 1) = "\"" /\ Char(raw, Len(raw)) = "\""
    THEN Bind({i \in 2..(Len(raw) - 1) : Char(raw, i) = "\""}, LAMBDA q :
            Without(raw, {i \in q : Cardinality({j \in q : j < i}) % 2 = 1},
                    2, Len(raw) - 1))
    ELSE raw

\* The field of a CSV text that ends before place e, cuts being the places of
\* the commas and line breaks outside quotes: the text as written, and its value.
FieldBefore(content, cuts, e) ==
    Bind(IF \E b \in cuts : b < e
         THEN Bind(CHOOSE b \in cuts : b < e /\ \A c \in cuts : c < e => c <= b,
                   LAMBDA b : IF SubSeq(content, b, b + 1) = "\r\n" THEN b + 2 ELSE b + 1)
         ELSE 1, LAMBDA from :
        [raw |-> SubSeq(content, from, e - 1),
         value |-> Unquoted(SubSeq(content, from, e - 1))])

\* A CSV text as a standard reader takes it apart: commas and line breaks
\* inside double quotes belong to the field; outside they end a field, a line
\* break also the record.  The result is the sequence of the records, each the
\* sequence of its fields.
ReadCsv(content) ==
    Bind(QuotePlaces(content), LAMBDA quotes :
    Bind({i \in 1..Len(content) :
            /\ Char(content, i) \in {",", "\r", "\n"}
            /\ ~(Char(content, i) = "\n" /\ i > 1 /\ Char(content, i - 1) = "\r")
            /\ Cardinality({j \in quotes : j < i}) % 2 = 0}, LAMBDA cuts :
    Bind({i \in cuts : Char(content, i) # ","}, LAMBDA breaks :
        [k \in 1..Cardinality(breaks) |->
            Bind({c \in cuts : /\ c <= Nth(breaks, k)
                               /\ k > 1 => c > Nth(breaks, k - 1)}, LAMBDA mine :
                [n \in 1..Cardinality(mine) |->
                    FieldBefore(content, cuts, Nth(mine, n))])])))

\* The values of the fields of the records read.
ValuesOf(records) ==
    [k \in 1..Len(records) |-> [n \in 1..Len(records[k]) |-> records[k][n].value]]

HeaderFields ==
    <<"feed_start_date", "feed_end_date", "feed_version", "archive_url",
      "archive_note">>

\* The fields of the rows of the datasets that are to have one, in the order p.
ExpectedRows(ds, p, flt) ==
    Bind(SelectSeq([i \in 1..Len(ds) |-> ds[p[i]]], LAMBDA d : Emitted(d, flt)),
         LAMBDA kept : [i \in 1..Len(kept) |-> ExpectedFields(kept[i])])

\* A field that a CSV reader takes apart unless it is quoted.
NeedsQuotes(value) ==
    \E i \in 1..Len(value) : Char(value, i) \in {",", "\"", "\r", "\n"}

\* C26: in every row format_archived_feeds writes, a field with a comma, a
\* double quote or a line break is enclosed in double quotes, with each double
\* quote inside it doubled; read back as standard CSV the output gives the
\* header and, row by row, the five field values that were written.
C26_CsvRoundTrip ==
    (FormatDone /\ Returned(outcome)) =>
        \A records \in {ReadCsv(outcome.value)} :
            /\ ValuesOf(records)
                  = <<HeaderFields>> \o ExpectedRows(Input, LatestFirst(Input), Filter)
            /\ \A k \in 1..Len(records) : \A n \in 1..Len(records[k]) :
                  \A f \in {records[k][n]} :
                      NeedsQuotes(f.value) =>
                          /\ Char(f.raw, 1) = "\"" /\ Char(f.raw, Len(f.raw)) = "\""
                          /\ Cardinality(QuotePlaces(f.raw))
                                = 2 + 2 * Cardinality(QuotePlaces(f.value))

\* A dataset whose url holds a comma and whose note holds double quotes and a
\* line break was written with both fields quoted, and read back as it was.
C26_Witness ==
    /\ FormatDone
    /\ Input = <<RowQuoted>>
    /\ outcome = Return(HeaderLine
                    \o "20250501,20250531,2025-05-02,\"https://example.com/a,b.zip\","
                    \o "\"\"\"quoted\"\"\nsecond line\"\r\n")
    /\ ValuesOf(ReadCsv(outcome.value))[2]
          = <<"20250501", "20250531", "2025-05-02", "https://example.com/a,b.zip",
              "\"quoted\"\nsecond line">>

----------------------------------------------------------------------------
(* The run of one request. *)

\* The lifetime the token endpoint gave as a number, 3600 when it gave none.
LifetimeOf(reply) == PyInt(DictGet(reply.body, "expires_in", PyNum(3600)))

\* The token exchange of the request succeeded: the POST was answered without
\* an error, with an access token and a lifetime that is a number.
RefreshSucceeded ==
    /\ Made("POST")
    /\ ~RequestFails(TheEvent("POST").reply)
    /\ Truthy(DictGet(TheEvent("POST").reply.body, "access_token", None))
    /\ Returned(LifetimeOf(TheEvent("POST").reply))

\* The token step of the request was taken and failed: the refresh was called
\* and made no POST, or its POST failed or brought no usable token.
TokenStepFailed == Made("refresh_access_token") /\ ~RefreshSucceeded

\* The one place of an event in the calls of the request.
PlaceOf(ev) == CHOOSE i \in EventsOf(ev) : TRUE

\* C27: a request is a linear run without retries: at most one token POST and
\* at most one dataset GET, the POST first; the GET is made only after the
\* feed_id passed validation and the token step succeeded or was skipped, a
\* failed token exchange ends the request with an error response and no GET;
\* and the request ends with one response, of status 200, 400, 401, 404 or 500.
C27_LinearRun ==
    Answered =>
        /\ Cardinality(EventsOf("refresh_access_token")) <= 1
        /\ Cardinality(EventsOf("POST")) <= 1
        /\ Cardinality(EventsOf("GET")) <= 1
        /\ (Made("POST") /\ Made("GET")) => PlaceOf("POST") < PlaceOf("GET")
        /\ Made("POST") => PlaceOf("refresh_access_token") < PlaceOf("POST")
        /\ Made("GET") =>
              /\ IsStr(RequestFeedId) /\ IsMdbNumber(RequestFeedId.s)
              /\ ~TokenStepFailed
              /\ PlaceOf("GET") = Cardinality(EventsOf("refresh_access_token"))
                                      + Cardinality(EventsOf("POST"))
                                      + Cardinality(EventsOf("download_archived_feeds"))
                                      + 1
        /\ TokenStepFailed =>
              /\ ~Made("GET")
              /\ TheResponse.status \in {401, 404, 500}
              /\ "error" \in DOMAIN TheResponse.body
        /\ Returned(outcome)
        /\ TheResponse.status \in {200, 400, 401, 404, 500}
        /\ TheResponse.status = 400 => ~Made("POST") /\ ~Made("GET")

\* A request whose token exchange timed out ended with an error response and
\* made no GET.
C27_Witness ==
    /\ Answered
    /\ Made("POST")
    /\ TheEvent("POST").reply = NetFailure("Timeout", "Read timed out. (read timeout=10)")
    /\ ~Made("GET")
    /\ TheResponse.status = 500

----------------------------------------------------------------------------
(* The token cache across requests. *)

\* The request got to the validity check of the token cache: a refresh token
\* is configured and the feed_id passed validation.
CheckedToken == Answered /\ Truthy(refresh_env) /\ TheResponse.status # 400

\* C28: requests handled one at a time in one process with a configured
\* refresh token: a refresh that succeeds at time t with lifetime E leaves the
\* token with the expiry t + E - 60; a request whose validity check comes
\* strictly before the expiry of the cached token makes no token POST and
\* sends that token as the bearer; a request whose check comes at or after it
\* makes exactly one token POST.
C28_RefreshSchedule ==
    CheckedToken =>
        /\ RefreshSucceeded =>
              token_cache =
                  [access_token |-> TheEvent("POST").reply.body.access_token,
                   expires_at |-> PyNum(now + LifetimeOf(TheEvent("POST").reply).value - 60)]
        /\ IsSet(pre_cache.access_token) =>
              IF started_at < pre_cache.expires_at.n
              THEN /\ ~Made("POST")
                   /\ Made("GET")
                   /\ TheEvent("GET").headers.Authorization
                         = "Bearer " \o pre_cache.access_token.s
                   /\ token_cache = pre_cache
              ELSE Cardinality(EventsOf("POST")) = 1

\* A token of lifetime 61 was cached; the request whose check came at its
\* expiry made one token POST and sent the new token.
C28_Witness ==
    /\ CheckedToken
    /\ pre_cache.access_token = PyStr("tokB")
    /\ started_at = pre_cache.expires_at.n
    /\ Cardinality(EventsOf("POST")) = 1
    /\ RefreshSucceeded
    /\ Made("GET")
    /\ TheEvent("GET").headers.Authorization = "Bearer tokA"

----------------------------------------------------------------------------
(* The token cache under interleaved calls. *)

\* A validity check was made while another thread was in a call: the calls
\* did not run one at a time.
Interleaved == \E i \in EventsOf("check") : trace[i].busy

\* The cache is as one refresh left it, or as it was at the start.
LeftByOneRefresh(cache, upto) ==
    \/ cache = EmptyCache
    \/ \E j \in EventsOf("store") :
          /\ j < upto
          /\ cache = [access_token |-> trace[j].access_token,
                      expires_at |-> trace[j].expires_at]

\* A validity check read a cache whose access_token and expires_at are not of
\* one refresh.
TornObserved ==
    \E i \in EventsOf("check") : ~LeftByOneRefresh(trace[i].cache, i)

\* Two calls were each answered with a token, the later POST sent at a time
\* the token of the earlier one covers: two refreshes for one expiry.
DuplicateRefresh ==
    \E a, b \in Threads :
        /\ a # b
        /\ IsSet(threads[a].expiry)
        /\ IsSet(threads[b].access_token)
        /\ threads[a].post_order < threads[b].post_order
        /\ threads[b].posted_at < threads[a].expiry.n

====
